---------------------------- MODULE Spec2Model ----------------------------
(***************************************************************************)
(* Liquid Air Energy Storage model (laes/storage.py, laes/simulation.py).  *)
(*                                                                         *)
(* Python floats are modelled as exact rationals <<n, d>> (d > 0, lowest   *)
(* terms), so every law below is a law of the real-number computation the  *)
(* code performs; rounding of IEEE doubles is outside the model.           *)
(* np.sqrt is exact on squares of rationals and np.exp is exact on         *)
(* non-positive integer multiples of ln 2 (exp(-k ln 2) = 1 / 2^k), so     *)
(* efficiencies are squares of rationals and loss rates are multiples of   *)
(* ln 2 per time unit.                                                     *)
(***************************************************************************)
EXTENDS Integers, Sequences, FiniteSets, TLC

VARIABLES
    sut,     \* which storage object the calls below exercise: "thermal" or "tank"
    ts,      \* a ThermalStorage object
    tk,      \* a LiquidAirTank object
    last,    \* the most recent call on ts / tk: operation, argument, return value, objects before it
    prev,    \* the call before last
    nops,    \* number of calls made so far
    cfg,                  \* LAESSimulator.cfg
    air,                  \* what the air property provider returns for cfg
    tank,                 \* LAESSimulator.tank
    hot_storage,          \* LAESSimulator.hot_storage
    cold_storage,         \* LAESSimulator.cold_storage
    history,              \* LAESSimulator.history
    total_energy_in_kWh,  \* LAESSimulator.total_energy_in_kWh
    total_energy_out_kWh, \* LAESSimulator.total_energy_out_kWh
    schedule,             \* run(): the schedule argument
    run_dt_hours,         \* run(): the dt_hours argument
    phase,                \* run(): index of the phase the outer loop is in
    step_in_phase,        \* run(): steps of that phase already executed
    current_time,         \* run(): current_time
    pc,                   \* "ready" (constructed), "reset"/"running" (inside run), "done" (run returned)
    results,              \* << the dict run() returned >>, or << >>
    observed,             \* per step of the run: the state before it, between transfers and losses, and the solver call made
    run_initial_tank_pct, \* run(): the initial_tank_pct argument
    rerun,                \* run() was called on an instance that had completed a run
    kwargs,               \* the keyword arguments given to PlantConfig(...)
    provider,             \* what the air property provider returns in the solver calls
    plant,                \* << the PlantConfig constructed >>, or << >>
    called,               \* the function of config.py / thermodynamics.py called last
    outcome,              \* how that call ended: exception raised, value returned, warnings
    sims                  \* two LAESSimulator instances built on cfg, by instance number

objVars == << sut, ts, tk, last, prev, nops >>

simVars == << cfg, air, tank, hot_storage, cold_storage, history,
              total_energy_in_kWh, total_energy_out_kWh, schedule, run_dt_hours,
              phase, step_in_phase, current_time, pc, results, observed,
              run_initial_tank_pct, rerun >>

solverVars == << kwargs, provider, plant, called, outcome >>

pairVars == << sims >>

vars == << objVars, simVars, solverVars, pairVars >>

(***************************************************************************)
(* Exact arithmetic standing for Python float arithmetic.                  *)
(***************************************************************************)
RECURSIVE GCD(_, _)
GCD(a, b) == IF b = 0 THEN a ELSE GCD(b, a % b)

Abs(x) == IF x < 0 THEN -x ELSE x

\* n / d in lowest terms with a positive denominator (d # 0)
Frac(n, d) ==
    LET g == GCD(Abs(n), Abs(d))
        s == IF d < 0 THEN -1 ELSE 1
    IN  << (s * n) \div g, (s * d) \div g >>

R(n) == << n, 1 >>

\* the sum of the values a and b over the least common denominator
Sum(a, b) ==
    LET g == GCD(a[2], b[2])
    IN  Frac(a[1] * (b[2] \div g) + b[1] * (a[2] \div g), (a[2] \div g) * b[2])

\* x + y: both operands are evaluated, then added
RAdd(x, y) == CHOOSE r \in { Sum(a, b) : a \in { x }, b \in { y } } : TRUE

RNeg(x) == << -x[1], x[2] >>

RSub(x, y) == RAdd(x, RNeg(y))

\* the product of the values a and b, cross-reduced
Product(a, b) ==
    LET p == Frac(a[1], b[2])
        q == Frac(b[1], a[2])
    IN  << p[1] * q[1], p[2] * q[2] >>

\* x * y: both operands are evaluated, then multiplied
RMul(x, y) == CHOOSE r \in { Product(a, b) : a \in { x }, b \in { y } } : TRUE

\* x / y; y = 0 is an evaluation error (ZeroDivisionError)
RDiv(x, y) == RMul(x, Frac(y[2], IF y[1] = 0 THEN 1 \div 0 ELSE y[1]))

RLe(x, y) ==
    LET g == GCD(x[2], y[2])
    IN  x[1] * (y[2] \div g) <= y[1] * (x[2] \div g)

RLt(x, y) == ~RLe(y, x)

REq(x, y) == x = y

\* Python min(a, b) / max(a, b)
RMin(x, y) == IF RLe(x, y) THEN x ELSE y

RMax(x, y) == IF RLe(x, y) THEN y ELSE x

RZero == R(0)

ROne == R(1)

IsInt(x) == x[2] = 1

\* int(x): truncation toward zero
IntTrunc(x) == IF x[1] >= 0 THEN x[1] \div x[2] ELSE -((-x[1]) \div x[2])

RECURSIVE Pow2(_)
Pow2(k) == IF k = 0 THEN 1 ELSE 2 * Pow2(k - 1)

\* np.exp(-x) for x = k * ln 2 with k a natural number: 1 / 2^k
ExpNegLn2(x) == << 1, Pow2(IntTrunc(x)) >>

ISqrt(n) == CHOOSE k \in 0..n : k * k = n

\* np.sqrt on the square of a rational
Sqrt(x) == << ISqrt(x[1]), ISqrt(x[2]) >>

(***************************************************************************)
(* class ThermalStorage                                                    *)
(***************************************************************************)
NewThermalStorage(capacity_J, loss_rate_per_s, efficiency) ==
    [ capacity_J         |-> capacity_J,
      loss_rate          |-> loss_rate_per_s,
      efficiency         |-> efficiency,
      charge_eff         |-> Sqrt(efficiency),
      discharge_eff      |-> Sqrt(efficiency),
      energy_J           |-> RZero,
      total_charged_J    |-> RZero,
      total_discharged_J |-> RZero,
      total_lost_J       |-> RZero,
      overflow_J         |-> RZero ]

ThermalSoc(s) ==
    IF RLt(RZero, s.capacity_J) THEN RDiv(s.energy_J, s.capacity_J) ELSE RZero

\* mutant: the clamp to the remaining capacity is dropped
ThermalStored_noClamp(s, energy_J) == RMul(energy_J, s.charge_eff)

\* mutant: the charge efficiency is not applied before the clamp
ThermalStored_noEff(s, energy_J) ==
    RMin(energy_J, RSub(s.capacity_J, s.energy_J))

\* the amount charge() adds to energy_J
ThermalStored(s, energy_J) ==
    RMin(RMul(energy_J, s.charge_eff), RSub(s.capacity_J, s.energy_J))

\* charge(energy_J): the object after the call and the value returned
ThermalCharge(s, energy_J) ==
    LET energy_after_loss == RMul(energy_J, s.charge_eff)
        actually_stored   == ThermalStored(s, energy_J)
        overflow          == RSub(energy_after_loss, actually_stored)
    IN  [ obj |-> [ s EXCEPT !.energy_J        = RAdd(@, actually_stored),
                             !.total_charged_J = RAdd(@, energy_J),
                             !.overflow_J      = RAdd(@, overflow) ],
          ret |-> actually_stored ]

\* mutant: the request is not converted to stored-energy terms
ThermalUsed_noConvert(s, energy_requested_J) ==
    RMin(energy_requested_J, s.energy_J)

\* the stored energy discharge() removes
ThermalUsed(s, energy_requested_J) ==
    RMin(RDiv(energy_requested_J, s.discharge_eff), s.energy_J)

\* mutant: the lifetime counter grows by the stored energy removed
ThermalDischarge_countsUsed(s, energy_requested_J) ==
    LET actually_used      == ThermalUsed(s, energy_requested_J)
        actually_delivered == RMul(actually_used, s.discharge_eff)
    IN  [ obj |-> [ s EXCEPT !.energy_J           = RSub(@, actually_used),
                             !.total_discharged_J = RAdd(@, actually_used) ],
          ret |-> actually_delivered ]

ThermalDischarge(s, energy_requested_J) ==
    LET actually_used      == ThermalUsed(s, energy_requested_J)
        actually_delivered == RMul(actually_used, s.discharge_eff)
    IN  [ obj |-> [ s EXCEPT !.energy_J           = RSub(@, actually_used),
                             !.total_discharged_J = RAdd(@, actually_delivered) ],
          ret |-> actually_delivered ]

\* the energy left by apply_losses(dt_s)
ThermalDecayed(s, dt_s) == RMul(s.energy_J, ExpNegLn2(RMul(s.loss_rate, dt_s)))

\* mutant: the loss counter grows by the energy left instead of the energy lost
ThermalApplyLosses_countsLeft(s, dt_s) ==
    LET E_after == ThermalDecayed(s, dt_s)
    IN  [ obj |-> [ s EXCEPT !.energy_J     = E_after,
                             !.total_lost_J = RAdd(@, E_after) ],
          ret |-> E_after ]

ThermalApplyLosses(s, dt_s) ==
    LET E_before == s.energy_J
        E_after  == ThermalDecayed(s, dt_s)
        lost     == RSub(E_before, E_after)
    IN  [ obj |-> [ s EXCEPT !.energy_J     = E_after,
                             !.total_lost_J = RAdd(@, lost) ],
          ret |-> lost ]

(***************************************************************************)
(* class LiquidAirTank                                                     *)
(***************************************************************************)
NewLiquidAirTank(capacity_kg, min_level_frac, boiloff_rate_per_s) ==
    [ capacity_kg         |-> capacity_kg,
      min_level_frac      |-> min_level_frac,
      boiloff_rate        |-> boiloff_rate_per_s,
      mass_kg             |-> RZero,
      total_charged_kg    |-> RZero,
      total_discharged_kg |-> RZero,
      total_boiloff_kg    |-> RZero ]

TankLevel(t) == RDiv(t.mass_kg, t.capacity_kg)

\* mutant: the minimum operable level is ignored
TankAvailable_noMinLevel(t) == RMax(RZero, t.mass_kg)

TankAvailable(t) ==
    LET min_mass == RMul(t.min_level_frac, t.capacity_kg)
    IN  RMax(RZero, RSub(t.mass_kg, min_mass))

\* mutant: the clamp to the remaining capacity is dropped
TankCharge_noClamp(t, mass_kg) ==
    [ obj |-> [ t EXCEPT !.mass_kg          = RAdd(@, mass_kg),
                         !.total_charged_kg = RAdd(@, mass_kg) ],
      ret |-> mass_kg ]

\* mutant: charge() counts and returns the mass offered, not the mass stored
TankCharge_returnsOffered(t, mass_kg) ==
    LET available       == RSub(t.capacity_kg, t.mass_kg)
        actually_stored == RMin(mass_kg, available)
    IN  [ obj |-> [ t EXCEPT !.mass_kg          = RAdd(@, actually_stored),
                             !.total_charged_kg = RAdd(@, mass_kg) ],
          ret |-> mass_kg ]

TankCharge(t, mass_kg) ==
    LET available       == RSub(t.capacity_kg, t.mass_kg)
        actually_stored == RMin(mass_kg, available)
    IN  [ obj |-> [ t EXCEPT !.mass_kg          = RAdd(@, actually_stored),
                             !.total_charged_kg = RAdd(@, actually_stored) ],
          ret |-> actually_stored ]

\* mutant: the request is handed out whatever the tank holds
TankWithdrawn_noClamp(t, mass_kg) == mass_kg

\* the mass discharge() withdraws
TankWithdrawn(t, mass_kg) == RMin(mass_kg, TankAvailable(t))

TankDischarge(t, mass_kg) ==
    LET actually_discharged == TankWithdrawn(t, mass_kg)
    IN  [ obj |-> [ t EXCEPT !.mass_kg             = RSub(@, actually_discharged),
                             !.total_discharged_kg = RAdd(@, actually_discharged) ],
          ret |-> actually_discharged ]

\* the mass left by apply_boiloff(dt_s)
TankDecayed(t, dt_s) == RMul(t.mass_kg, ExpNegLn2(RMul(t.boiloff_rate, dt_s)))

\* mutant: the boil-off counter grows by the mass left instead of the mass lost
TankApplyBoiloff_countsLeft(t, dt_s) ==
    LET m_after == TankDecayed(t, dt_s)
    IN  [ obj |-> [ t EXCEPT !.mass_kg          = m_after,
                             !.total_boiloff_kg = RAdd(@, m_after) ],
          ret |-> m_after ]

TankApplyBoiloff(t, dt_s) ==
    LET m_before == t.mass_kg
        m_after  == TankDecayed(t, dt_s)
        lost     == RSub(m_before, m_after)
    IN  [ obj |-> [ t EXCEPT !.mass_kg          = m_after,
                             !.total_boiloff_kg = RAdd(@, lost) ],
          ret |-> lost ]

(***************************************************************************)
(* config.py: PlantConfig derived properties                               *)
(***************************************************************************)
SECONDS_PER_HOUR == 3600

HOURS_PER_DAY == 24

charge_power_kW(c) == RMul(c.charge_power_MW, R(1000))

discharge_power_kW(c) == RMul(c.discharge_power_MW, R(1000))

tank_capacity_kg(c) == RMul(c.tank_capacity_tonnes, R(1000))

\* (pct / 100) / (HOURS_PER_DAY * SECONDS_PER_HOUR)
RatePerSecond(pct_per_day) ==
    RDiv(RDiv(pct_per_day, R(100)), R(HOURS_PER_DAY * SECONDS_PER_HOUR))

boiloff_rate_per_s(c) == RatePerSecond(c.boiloff_pct_per_day)

hot_loss_rate_per_s(c) == RatePerSecond(c.hot_storage_loss_pct_per_day)

cold_loss_rate_per_s(c) == RatePerSecond(c.cold_storage_loss_pct_per_day)

(***************************************************************************)
(* thermodynamics.py: the cycle solvers, over an air property provider     *)
(* (CoolProp) that is outside the repository.  The provider is the record  *)
(* `air`: the values its lookups return for the configured pressures and   *)
(* temperatures.  A temperature of the high-pressure stream is carried as  *)
(* the enthalpy at that temperature, resolved to a grid (tabulated data);  *)
(* the cryogenic expander extracts the fraction turbine_ratio of its inlet *)
(* enthalpy; the two-phase quality at low pressure is (h - h_liquid) /     *)
(* (h_vapour - h_liquid), and outside [0, 1] the provider either returns   *)
(* that value, returns -1, or fails, as air.outside_dome says.  A lookup   *)
(* that fails whatever the state is named by air.fails_at.                 *)
(***************************************************************************)
\* +infinity of float('inf')
Inf == << 1, 0 >>

\* PropsSI('H', 'T', T, 'P', P_high, 'Air')
EnthalpyAt(a, T) == T

\* PropsSI('T', 'H', h, 'P', P_high, 'Air'): h resolved down to the grid
TemperatureAt(a, h) == R((IntTrunc(h) \div a.grid) * a.grid)

\* mutant: the saturation floor of the cold-store exchanger is dropped
ColdStoreExchanger_noFloor(a, cold_available_J_per_kg) ==
    IF RLt(RZero, cold_available_J_per_kg)
    THEN LET h_before_cold == EnthalpyAt(a, a.T_after_hx1)
             h_after_cold  == RSub(h_before_cold, cold_available_J_per_kg)
         IN  [ T_after_cold |-> TemperatureAt(a, h_after_cold),
               cold_used    |-> RSub(h_before_cold, h_after_cold) ]
    ELSE [ T_after_cold |-> a.T_after_hx1, cold_used |-> RZero ]

\* step 3, the cold-store heat exchanger
ColdStoreExchanger(a, cold_available_J_per_kg) ==
    IF RLt(RZero, cold_available_J_per_kg)
    THEN LET h_before_cold == EnthalpyAt(a, a.T_after_hx1)
             h_after_cold  == RMax(RSub(h_before_cold, cold_available_J_per_kg),
                                   a.h_min)
         IN  [ T_after_cold |-> TemperatureAt(a, h_after_cold),
               cold_used    |-> RSub(h_before_cold, h_after_cold) ]
    ELSE [ T_after_cold |-> a.T_after_hx1, cold_used |-> RZero ]

\* turbine_stage(T_in, P_high, P_low, eta): outlet temperature and work
turbine_stage(a, T_in) ==
    LET w_actual == RMul(a.turbine_ratio, EnthalpyAt(a, T_in))
    IN  [ T_out |-> RSub(T_in, w_actual), w_actual |-> w_actual ]

\* PropsSI('Q', 'P', P_low, 'H', h, 'Air'): the value returned, or raised = TRUE
QualityLookup(a, h) ==
    LET q == RDiv(RSub(h, a.h_liquid), RSub(a.h_vapour, a.h_liquid))
    IN  IF a.fails_at = "quality" THEN [ raised |-> TRUE, value |-> RZero ]
        ELSE IF (RLe(RZero, q) /\ RLe(q, ROne)) \/ a.outside_dome = "value"
        THEN [ raised |-> FALSE, value |-> q ]
        ELSE IF a.outside_dome = "minus_one"
        THEN [ raised |-> FALSE, value |-> R(-1) ]
        ELSE [ raised |-> TRUE, value |-> RZero ]

\* mutant: the quality is not checked against [0, 1]
LiquidFractionJT_noRangeCheck(a, h_before_jt) ==
    LET lookup == QualityLookup(a, h_before_jt)
    IN  IF lookup.raised THEN RZero ELSE RSub(ROne, lookup.value)

\* step 5, J-T expansion: the liquid fraction of the main stream
LiquidFractionJT(a, h_before_jt) ==
    LET lookup  == QualityLookup(a, h_before_jt)
        quality == lookup.value
    IN  IF lookup.raised THEN RZero
        ELSE IF RLe(RZero, quality) /\ RLe(quality, ROne)
             THEN RSub(ROne, quality)
             ELSE RZero

\* steps 4 to 7 of calculate_liquefaction, after the cold-store exchanger
\* result hx: flow split, cryo-turbine, second exchanger, J-T valve, results
LiquefactionCycle(c, a, hx) ==
    LET w_compression   == a.w_compression
        q_rejected      == a.q_rejected
        bypass_frac     == c.bypass_fraction
        main_frac       == RSub(ROne, bypass_frac)
        bypass          == turbine_stage(a, hx.T_after_cold)
        w_turbine_total == RMul(bypass.w_actual, bypass_frac)
        T_after_hx2     == RSub(hx.T_after_cold,
                                RMul(c.hx_effectiveness,
                                     RSub(hx.T_after_cold, bypass.T_out)))
        h_before_jt     == EnthalpyAt(a, T_after_hx2)
        liquid_yield    == RMul(main_frac, LiquidFractionJT(a, h_before_jt))
        net_work        == RSub(w_compression, w_turbine_total)
    IN  [ liquid_yield                  |-> liquid_yield,
          net_work_J_per_kg             |-> net_work,
          specific_consumption_J_per_kg |->
              IF RLt(RZero, liquid_yield) THEN RDiv(net_work, liquid_yield) ELSE Inf,
          heat_rejected_J_per_kg        |-> q_rejected,
          cold_used_J_per_kg            |-> hx.cold_used,
          T_before_JT_K                 |-> T_after_hx2 ]

calculate_liquefaction(c, a, cold_available_J_per_kg) ==
    CHOOSE r \in { LiquefactionCycle(c, a, hx) :
                     hx \in { ColdStoreExchanger(a, cold_available_J_per_kg) } } : TRUE

calculate_discharge(c, a) ==
    [ net_work_J_per_kg         |-> RSub(a.w_turbine_discharge, a.w_pump),
      heat_consumed_J_per_kg    |-> a.q_heat_discharge,
      cold_recoverable_J_per_kg |-> a.cold_recoverable ]

(***************************************************************************)
(* The functions of config.py and thermodynamics.py as calls: how a call   *)
(* ends (the exception that leaves it, or the value returned) and the      *)
(* warnings it issues.                                                     *)
(***************************************************************************)
Returned(value, warnings) ==
    [ raised |-> "none", value |-> value, warnings |-> warnings ]

Raised(exception) == [ raised |-> exception, value |-> << >>, warnings |-> { } ]

\* PlantConfig(**kwargs): the dataclass-generated __init__ assigns the fields
ConstructPlantConfig(k) == Returned(k, { })

\* the warnings.warn calls of step 5 of calculate_liquefaction
ThrottleWarnings(a, h_before_jt) ==
    LET lookup == QualityLookup(a, h_before_jt)
    IN  IF lookup.raised THEN { "quality lookup failed" }
        ELSE IF RLt(ROne, lookup.value) THEN { "superheated vapour" }
        ELSE { }

\* calculate_liquefaction returning its result liq
LiquefactionReturn(a, liq) ==
    Returned(liq, ThrottleWarnings(a, EnthalpyAt(a, liq.T_before_JT_K)))

\* the lookups of calculate_liquefaction that are made outside its try block
UnguardedLookups(cold_available_J_per_kg) ==
    { "compression", "cold_return", "turbine", "throttle_enthalpy" }
        \cup (IF RLt(RZero, cold_available_J_per_kg) THEN { "saturation" } ELSE { })

\* calculate_liquefaction(cfg, cold_available_J_per_kg) as a call
\* 1.0 / n_stages, then the lookups of compressor_stage before its division
\* by eta_s, then the remaining lookups in program order
LiquefactionCall(c, a, cold_available_J_per_kg) ==
    IF c.n_compressor_stages = 0 THEN Raised("ZeroDivisionError")
    ELSE IF a.fails_at = "compression" THEN Raised("PropertyLookupError")
    ELSE IF c.eta_compressor = RZero THEN Raised("ZeroDivisionError")
    ELSE IF a.fails_at \in UnguardedLookups(cold_available_J_per_kg)
    THEN Raised("PropertyLookupError")
    ELSE LiquefactionReturn(a, calculate_liquefaction(c, a, cold_available_J_per_kg))

\* calculate_rte from the two rtes on: improvement_pct and the result
RteReturn(rte_no_cold, rte_with_cold, warnings) ==
    IF rte_no_cold = RZero THEN Raised("ZeroDivisionError")
    ELSE Returned([ rte_no_cold     |-> rte_no_cold,
                    rte_with_cold   |-> rte_with_cold,
                    improvement_pct |->
                        RMul(RSub(RDiv(rte_with_cold, rte_no_cold), ROne), R(100)) ],
                  warnings)

\* calculate_rte from the solver results on; x / float('inf') is 0.0
RteFromResults(dis_result, no_cold, with_cold) ==
    IF no_cold.raised # "none" THEN Raised(no_cold.raised)
    ELSE IF no_cold.value.specific_consumption_J_per_kg = RZero
    THEN Raised("ZeroDivisionError")
    ELSE IF with_cold.raised # "none" THEN Raised(with_cold.raised)
    ELSE IF with_cold.value.specific_consumption_J_per_kg = RZero
    THEN Raised("ZeroDivisionError")
    ELSE RteReturn(RDiv(dis_result.net_work_J_per_kg,
                        no_cold.value.specific_consumption_J_per_kg),
                   RDiv(dis_result.net_work_J_per_kg,
                        with_cold.value.specific_consumption_J_per_kg),
                   no_cold.warnings \cup with_cold.warnings)

\* the recycled cold calculate_rte hands to the second liquefaction call
RteColdAvailable(c, a) ==
    RMul(calculate_discharge(c, a).cold_recoverable_J_per_kg, c.cold_storage_efficiency)

\* calculate_discharge(cfg) as a call: v_liquid * (P_high - P_low) / eta_pump
\* and 1.0 / n_stages
DischargeCall(c, a) ==
    IF c.eta_pump = RZero \/ c.n_turbine_stages = 0
    THEN Raised("ZeroDivisionError")
    ELSE Returned(calculate_discharge(c, a), { })

\* calculate_rte(cfg) as a call
RteCall(c, a) ==
    IF DischargeCall(c, a).raised # "none" THEN Raised(DischargeCall(c, a).raised)
    ELSE RteFromResults(calculate_discharge(c, a),
                        LiquefactionCall(c, a, RZero),
                        LiquefactionCall(c, a, RteColdAvailable(c, a)))

(***************************************************************************)
(* simulation.py: class LAESSimulator                                      *)
(***************************************************************************)
\* fields set in __init__ from the solvers
liq_no_cold == calculate_liquefaction(cfg, air, RZero)

discharge_perf == calculate_discharge(cfg, air)

specific_output == discharge_perf.net_work_J_per_kg

heat_per_kg_discharge == discharge_perf.heat_consumed_J_per_kg

cold_per_kg == discharge_perf.cold_recoverable_J_per_kg

\* _init_storage: the three fresh storage objects
InitStorage(c) ==
    LET liquid_rate_discharge ==
            RDiv(RMul(discharge_power_kW(c), R(1000)), specific_output)
        hot_capacity_J ==
            RMul(RMul(RMul(RMul(heat_per_kg_discharge, liquid_rate_discharge),
                           c.storage_duration_hours),
                      R(SECONDS_PER_HOUR)),
                 Frac(3, 2))
        cold_capacity_J == RMul(RMul(cold_per_kg, tank_capacity_kg(c)), Frac(1, 2))
    IN  [ tank |-> NewLiquidAirTank(tank_capacity_kg(c),
                                    RDiv(c.tank_min_level_pct, R(100)),
                                    boiloff_rate_per_s(c)),
          hot  |-> NewThermalStorage(hot_capacity_J, hot_loss_rate_per_s(c),
                                     c.hot_storage_efficiency),
          cold |-> NewThermalStorage(cold_capacity_J, cold_loss_rate_per_s(c),
                                     c.cold_storage_efficiency) ]

\* mutant: reset() keeps the storage objects instead of creating them anew
ResetStorage_keepsObjects(c, initial_tank_pct) ==
    [ tank |-> [ tank EXCEPT !.mass_kg =
                    RMul(RDiv(initial_tank_pct, R(100)), tank_capacity_kg(c)) ],
      hot  |-> [ hot_storage EXCEPT !.energy_J = RMul(hot_storage.capacity_J, Frac(1, 2)) ],
      cold |-> [ cold_storage EXCEPT !.energy_J = RZero ] ]

\* mutant: reset() starts the cold store half full, like the hot store
ResetStorage_coldHalfFull(c, initial_tank_pct) ==
    LET s == InitStorage(c)
    IN  [ tank |-> [ s.tank EXCEPT !.mass_kg =
                        RMul(RDiv(initial_tank_pct, R(100)), tank_capacity_kg(c)) ],
          hot  |-> [ s.hot EXCEPT !.energy_J = RMul(s.hot.capacity_J, Frac(1, 2)) ],
          cold |-> [ s.cold EXCEPT !.energy_J = RMul(s.cold.capacity_J, Frac(1, 2)) ] ]

\* reset(initial_tank_pct): storage after _init_storage and the initial conditions
ResetStorage(c, initial_tank_pct) ==
    LET s == InitStorage(c)
    IN  [ tank |-> [ s.tank EXCEPT !.mass_kg =
                        RMul(RDiv(initial_tank_pct, R(100)), tank_capacity_kg(c)) ],
          hot  |-> [ s.hot EXCEPT !.energy_J = RMul(s.hot.capacity_J, Frac(1, 2)) ],
          cold |-> [ s.cold EXCEPT !.energy_J = RZero ] ]

\* TimeStepData(time_hours, mode) with the dataclass defaults
NewTimeStepData(time_h, mode) ==
    [ time_hours         |-> time_h,
      mode               |-> mode,
      power_in_kW        |-> RZero,
      power_out_kW       |-> RZero,
      tank_level_pct     |-> RZero,
      hot_soc_pct        |-> RZero,
      cold_soc_pct       |-> RZero,
      liquid_produced_kg |-> RZero,
      liquid_consumed_kg |-> RZero,
      boiloff_kg         |-> RZero,
      energy_in_kWh      |-> RZero,
      energy_out_kWh     |-> RZero ]

\* The simulator state a step works on
SimState ==
    [ tank |-> tank, hot |-> hot_storage, cold |-> cold_storage,
      total_in |-> total_energy_in_kWh, total_out |-> total_energy_out_kWh ]

\* mutant: the cap of 150 kJ/kg is dropped
ChargeColdPerKg_noCap(s, dt_s) ==
    LET power_kW         == charge_power_kW(cfg)
        air_rate_kg_s    == RDiv(RMul(power_kW, R(1000)), liq_no_cold.net_work_J_per_kg)
        air_processed_kg == RMul(air_rate_kg_s, dt_s)
    IN  IF RLt(RZero, s.cold.energy_J) /\ RLt(RZero, air_processed_kg)
        THEN RDiv(s.cold.energy_J, air_processed_kg)
        ELSE RZero

\* the recycled cold per kg handed to the liquefaction solver in a charge step
ChargeColdPerKg(s, dt_s) ==
    LET power_kW         == charge_power_kW(cfg)
        air_rate_kg_s    == RDiv(RMul(power_kW, R(1000)), liq_no_cold.net_work_J_per_kg)
        air_processed_kg == RMul(air_rate_kg_s, dt_s)
    IN  IF RLt(RZero, s.cold.energy_J) /\ RLt(RZero, air_processed_kg)
        THEN RMin(RDiv(s.cold.energy_J, air_processed_kg), R(150000))
        ELSE RZero

\* _execute_charge from the liquefaction result on: the transfers, the
\* totals and the record; solver keeps the call of calculate_liquefaction
\* the step made
ChargeTransfers(s, step, dt_s, dt_hours, cold_available, liq_result) ==
    LET power_kW        == charge_power_kW(cfg)
        energy_in_J     == RMul(RMul(power_kW, R(1000)), dt_s)
        air_processed   == RDiv(energy_in_J, liq_result.net_work_J_per_kg)
        liquid_produced == RMul(air_processed, liq_result.liquid_yield)
        tk1             == TankCharge(s.tank, liquid_produced)
        heat_J          == RMul(liq_result.heat_rejected_J_per_kg, air_processed)
        hot1            == ThermalCharge(s.hot, heat_J)
        cold_used_J     == RMul(liq_result.cold_used_J_per_kg, air_processed)
        cold1           == ThermalDischarge(s.cold, cold_used_J)
        energy_in_kWh   == RMul(power_kW, dt_hours)
    IN  [ state |-> [ s EXCEPT !.tank = tk1.obj, !.hot = hot1.obj, !.cold = cold1.obj,
                               !.total_in = RAdd(@, energy_in_kWh) ],
          step  |-> [ step EXCEPT !.power_in_kW = power_kW,
                                  !.liquid_produced_kg = tk1.ret,
                                  !.energy_in_kWh = energy_in_kWh ],
          solver |-> << [ cold_available |-> cold_available, liq_result |-> liq_result ] >> ]

\* _execute_charge(step, dt_s, dt_hours): the state and the record after it
ExecuteCharge(s, step, dt_s, dt_hours) ==
    CHOOSE r \in UNION { { ChargeTransfers(s, step, dt_s, dt_hours, cold_available, liq_result) :
                               liq_result \in { calculate_liquefaction(cfg, air,
                                                                       cold_available) } } :
                           cold_available \in { ChargeColdPerKg(s, dt_s) } } : TRUE

\* mutant: the power is reduced whenever the heat delivered is below the
\* heat needed, without the 90% threshold
ExecuteDischarge_noThreshold(s, step, dt_s, dt_hours) ==
    LET target_power_kW  == discharge_power_kW(cfg)
        liquid_rate_kg_s == RDiv(RMul(target_power_kW, R(1000)), specific_output)
        liquid_needed    == RMul(liquid_rate_kg_s, dt_s)
        tk1              == TankDischarge(s.tank, liquid_needed)
        liquid_consumed  == tk1.ret
        power_fraction   == IF RLt(RZero, liquid_needed)
                            THEN RDiv(liquid_consumed, liquid_needed) ELSE RZero
        tank_power_kW    == RMul(target_power_kW, power_fraction)
        heat_needed_J    == RMul(heat_per_kg_discharge, liquid_consumed)
        hot1             == ThermalDischarge(s.hot, heat_needed_J)
        heat_delivered   == hot1.ret
        actual_power_kW  ==
            IF RLt(heat_delivered, heat_needed_J)
               /\ RLt(RZero, heat_needed_J)
            THEN RMul(tank_power_kW, RDiv(heat_delivered, heat_needed_J))
            ELSE tank_power_kW
        cold_generated_J == RMul(cold_per_kg, liquid_consumed)
        cold1            == ThermalCharge(s.cold, cold_generated_J)
        energy_out_kWh   == RMul(actual_power_kW, dt_hours)
    IN  [ state |-> [ s EXCEPT !.tank = tk1.obj, !.hot = hot1.obj, !.cold = cold1.obj,
                               !.total_out = RAdd(@, energy_out_kWh) ],
          step  |-> [ step EXCEPT !.liquid_consumed_kg = liquid_consumed,
                                  !.power_out_kW = actual_power_kW,
                                  !.energy_out_kWh = energy_out_kWh ],
          solver |-> << >> ]

\* mutant: the cold generated follows the liquid requested, not the liquid
\* consumed
ExecuteDischarge_coldOfNeeded(s, step, dt_s, dt_hours) ==
    LET target_power_kW  == discharge_power_kW(cfg)
        liquid_rate_kg_s == RDiv(RMul(target_power_kW, R(1000)), specific_output)
        liquid_needed    == RMul(liquid_rate_kg_s, dt_s)
        tk1              == TankDischarge(s.tank, liquid_needed)
        liquid_consumed  == tk1.ret
        power_fraction   == IF RLt(RZero, liquid_needed)
                            THEN RDiv(liquid_consumed, liquid_needed) ELSE RZero
        tank_power_kW    == RMul(target_power_kW, power_fraction)
        heat_needed_J    == RMul(heat_per_kg_discharge, liquid_consumed)
        hot1             == ThermalDischarge(s.hot, heat_needed_J)
        heat_delivered   == hot1.ret
        actual_power_kW  ==
            IF RLt(heat_delivered, RMul(heat_needed_J, Frac(9, 10)))
               /\ RLt(RZero, heat_needed_J)
            THEN RMul(tank_power_kW, RDiv(heat_delivered, heat_needed_J))
            ELSE tank_power_kW
        cold_generated_J == RMul(cold_per_kg, liquid_needed)
        cold1            == ThermalCharge(s.cold, cold_generated_J)
        energy_out_kWh   == RMul(actual_power_kW, dt_hours)
    IN  [ state |-> [ s EXCEPT !.tank = tk1.obj, !.hot = hot1.obj, !.cold = cold1.obj,
                               !.total_out = RAdd(@, energy_out_kWh) ],
          step  |-> [ step EXCEPT !.liquid_consumed_kg = liquid_consumed,
                                  !.power_out_kW = actual_power_kW,
                                  !.energy_out_kWh = energy_out_kWh ],
          solver |-> << >> ]

\* _execute_discharge(step, dt_s, dt_hours)
ExecuteDischarge(s, step, dt_s, dt_hours) ==
    LET target_power_kW  == discharge_power_kW(cfg)
        liquid_rate_kg_s == RDiv(RMul(target_power_kW, R(1000)), specific_output)
        liquid_needed    == RMul(liquid_rate_kg_s, dt_s)
        tk1              == TankDischarge(s.tank, liquid_needed)
        liquid_consumed  == tk1.ret
        power_fraction   == IF RLt(RZero, liquid_needed)
                            THEN RDiv(liquid_consumed, liquid_needed) ELSE RZero
        tank_power_kW    == RMul(target_power_kW, power_fraction)
        heat_needed_J    == RMul(heat_per_kg_discharge, liquid_consumed)
        hot1             == ThermalDischarge(s.hot, heat_needed_J)
        heat_delivered   == hot1.ret
        actual_power_kW  ==
            IF RLt(heat_delivered, RMul(heat_needed_J, Frac(9, 10)))
               /\ RLt(RZero, heat_needed_J)
            THEN RMul(tank_power_kW, RDiv(heat_delivered, heat_needed_J))
            ELSE tank_power_kW
        cold_generated_J == RMul(cold_per_kg, liquid_consumed)
        cold1            == ThermalCharge(s.cold, cold_generated_J)
        energy_out_kWh   == RMul(actual_power_kW, dt_hours)
    IN  [ state |-> [ s EXCEPT !.tank = tk1.obj, !.hot = hot1.obj, !.cold = cold1.obj,
                               !.total_out = RAdd(@, energy_out_kWh) ],
          step  |-> [ step EXCEPT !.liquid_consumed_kg = liquid_consumed,
                                  !.power_out_kW = actual_power_kW,
                                  !.energy_out_kWh = energy_out_kWh ],
          solver |-> << >> ]

\* mutant: the discharge branch calls _execute_charge
ExecuteMode_dischargeCharges(s, step, mode, dt_s, dt_hours) ==
    IF mode = "charge" \/ mode = "discharge"
    THEN ExecuteCharge(s, step, dt_s, dt_hours)
    ELSE [ state |-> s, step |-> step, solver |-> << >> ]

\* the mode-specific part of _execute_step
ExecuteMode(s, step, mode, dt_s, dt_hours) ==
    IF mode = "charge" THEN ExecuteCharge(s, step, dt_s, dt_hours)
    ELSE IF mode = "discharge" THEN ExecuteDischarge(s, step, dt_s, dt_hours)
    ELSE [ state |-> s, step |-> step, solver |-> << >> ]

\* mutant: self-losses applied twice in a step
ApplyStepLosses_twice(m, dt_s) ==
    LET boil  == TankApplyBoiloff(m.state.tank, dt_s)
        hot2  == ThermalApplyLosses(ThermalApplyLosses(m.state.hot, dt_s).obj, dt_s)
        cold1 == ThermalApplyLosses(m.state.cold, dt_s)
    IN  [ state |-> [ m.state EXCEPT !.tank = boil.obj, !.hot = hot2.obj,
                                     !.cold = cold1.obj ],
          step  |-> [ m.step EXCEPT
                        !.boiloff_kg     = boil.ret,
                        !.tank_level_pct = RMul(TankLevel(boil.obj), R(100)),
                        !.hot_soc_pct    = RMul(ThermalSoc(hot2.obj), R(100)),
                        !.cold_soc_pct   = RMul(ThermalSoc(cold1.obj), R(100)) ],
          mid   |-> m.state,
          solver |-> m.solver ]

\* the "apply losses (always)" and "record final states" part of
\* _execute_step; mid is the state between the mode-specific transfers and
\* the losses
ApplyStepLosses(m, dt_s) ==
    LET boil  == TankApplyBoiloff(m.state.tank, dt_s)
        hot1  == ThermalApplyLosses(m.state.hot, dt_s)
        cold1 == ThermalApplyLosses(m.state.cold, dt_s)
    IN  [ state |-> [ m.state EXCEPT !.tank = boil.obj, !.hot = hot1.obj,
                                     !.cold = cold1.obj ],
          step  |-> [ m.step EXCEPT
                        !.boiloff_kg     = boil.ret,
                        !.tank_level_pct = RMul(TankLevel(boil.obj), R(100)),
                        !.hot_soc_pct    = RMul(ThermalSoc(hot1.obj), R(100)),
                        !.cold_soc_pct   = RMul(ThermalSoc(cold1.obj), R(100)) ],
          mid   |-> m.state,
          solver |-> m.solver ]

\* mutant: an idle step runs the discharge logic
ExecuteStep_idleDischarges(s, mode, dt_s, time_h) ==
    ApplyStepLosses(
        IF mode = "charge"
        THEN ExecuteCharge(s, NewTimeStepData(time_h, mode), dt_s,
                           RDiv(dt_s, R(SECONDS_PER_HOUR)))
        ELSE ExecuteDischarge(s, NewTimeStepData(time_h, mode), dt_s,
                              RDiv(dt_s, R(SECONDS_PER_HOUR))),
        dt_s)

\* _execute_step(mode, dt_s, time_h): the mode-specific transfers, then the
\* losses and the record
ExecuteStep(s, mode, dt_s, time_h) ==
    CHOOSE r \in { ApplyStepLosses(m, dt_s) :
                     m \in { ExecuteMode(s, NewTimeStepData(time_h, mode), mode, dt_s,
                                         RDiv(dt_s, R(SECONDS_PER_HOUR))) } } : TRUE

\* mutant: the guard of the other efficiencies, max(..., 1), is used for rte
RoundTripEfficiency_maxOne(s) == RDiv(s.total_out, RMax(s.total_in, ROne))

\* _calculate_results: rte
RoundTripEfficiency(s) ==
    IF RLt(RZero, s.total_in) THEN RDiv(s.total_out, s.total_in) ELSE RZero

\* _calculate_results
CalculateResults(s) ==
    LET rte == RoundTripEfficiency(s)
        tank_eff == RSub(ROne, RDiv(s.tank.total_boiloff_kg,
                                    RMax(s.tank.total_charged_kg, ROne)))
        hot_eff  == RSub(ROne, RDiv(s.hot.total_lost_J,
                                    RMax(s.hot.total_charged_J, ROne)))
        cold_eff == RSub(ROne, RDiv(s.cold.total_lost_J,
                                    RMax(s.cold.total_charged_J, ROne)))
    IN  [ total_energy_in_kWh      |-> s.total_in,
          total_energy_out_kWh     |-> s.total_out,
          round_trip_efficiency    |-> rte,
          tank_efficiency          |-> tank_eff,
          hot_storage_efficiency   |-> hot_eff,
          cold_storage_efficiency  |-> cold_eff,
          total_liquid_produced_kg |-> s.tank.total_charged_kg,
          total_liquid_consumed_kg |-> s.tank.total_discharged_kg,
          total_boiloff_kg         |-> s.tank.total_boiloff_kg,
          final_tank_level_pct     |-> RMul(TankLevel(s.tank), R(100)) ]

\* mutant: the step count of a phase is rounded up
NSteps_roundUp(phase_duration, dt_h) ==
    LET q == RDiv(phase_duration, dt_h)
    IN  IF IsInt(q) THEN IntTrunc(q) ELSE IntTrunc(q) + 1

\* n_steps = int(phase_duration / dt_hours)
NSteps(phase_duration, dt_h) == IntTrunc(RDiv(phase_duration, dt_h))

\* the first phase from index i on that range(n_steps) enters, or Len + 1
RECURSIVE NextPhase(_, _, _)
NextPhase(sched, dt_h, i) ==
    IF i > Len(sched) THEN i
    ELSE IF NSteps(sched[i][2], dt_h) > 0 THEN i
    ELSE NextPhase(sched, dt_h, i + 1)

(***************************************************************************)
(* Inputs of the simulator: schedules, configurations, provider values     *)
(***************************************************************************)
MaxPhases == 2

Modes == { "charge", "discharge", "idle" }

Durations == { Frac(1, 2), R(1), Frac(3, 2) }

DtHours == { Frac(1, 2), R(1) }

InitialTankPcts == { R(50), R(100) }

RECURSIVE SeqsUpTo(_, _)
SeqsUpTo(S, n) ==
    IF n = 0 THEN { << >> }
    ELSE LET shorter == SeqsUpTo(S, n - 1)
         IN  shorter \cup { Append(q, x) : q \in shorter, x \in S }

Schedules == SeqsUpTo(Modes \X Durations, MaxPhases) \ { << >> }

\* the schedules given to run() on an instance that has run before
RerunSchedules == { s \in Schedules : Len(s) = 1 }

\* PlantConfig values of a plant of a fraction of a watt with a 2.5 g tank,
\* which keeps the numbers small; loss rates are in units of ln 2, so that
\* rate_per_s * dt_s is a whole number of halvings for every dt in DtHours
BaseConfig ==
    [ charge_power_MW               |-> Frac(1, 36000000),
      discharge_power_MW            |-> Frac(1, 48000000),
      storage_duration_hours        |-> R(1),
      tank_capacity_tonnes          |-> Frac(1, 400000),
      tank_min_level_pct            |-> R(10),
      boiloff_pct_per_day           |-> R(0),
      hot_storage_loss_pct_per_day  |-> R(0),
      hot_storage_efficiency        |-> R(1),
      cold_storage_loss_pct_per_day |-> R(0),
      cold_storage_efficiency       |-> R(1),
      bypass_fraction               |-> Frac(1, 2),
      hx_effectiveness              |-> Frac(1, 2),
      n_compressor_stages           |-> 3,
      n_turbine_stages              |-> 4,
      eta_compressor                |-> Frac(17, 20),
      eta_cryo_turbine              |-> Frac(4, 5),
      eta_turbine                   |-> Frac(17, 20),
      eta_pump                      |-> Frac(3, 4) ]

Configs ==
    { [ BaseConfig EXCEPT !.boiloff_pct_per_day           = l,
                          !.hot_storage_loss_pct_per_day  = l,
                          !.cold_storage_loss_pct_per_day = l,
                          !.hot_storage_efficiency        = e,
                          !.cold_storage_efficiency       = RMul(e, e) ] :
        l \in { R(0), R(4800) }, e \in { R(1), Frac(1, 4) } }

\* provider values [J/kg]; temperatures of the high-pressure stream are
\* carried as its enthalpy, which the provider resolves to multiples of grid
BaseAir ==
    [ w_compression       |-> R(75000),
      q_rejected          |-> R(60000),
      T_after_hx1         |-> R(200000),
      h_min               |-> R(100000),
      grid                |-> 100000,
      turbine_ratio       |-> Frac(1, 2),
      h_liquid            |-> R(0),
      h_vapour            |-> R(200000),
      outside_dome        |-> "value",
      fails_at            |-> "none",
      w_turbine_discharge |-> R(70000),
      w_pump              |-> R(10000),
      q_heat_discharge    |-> R(90000),
      cold_recoverable    |-> R(400000) ]

AirModels ==
    { BaseAir,
      [ BaseAir EXCEPT !.h_vapour = R(120000), !.outside_dome = "raise" ] }

NoResults == << >>

SimIdle ==
    /\ cfg = BaseConfig
    /\ air = BaseAir
    /\ tank = InitStorage(cfg).tank
    /\ hot_storage = InitStorage(cfg).hot
    /\ cold_storage = InitStorage(cfg).cold
    /\ history = << >>
    /\ total_energy_in_kWh = RZero
    /\ total_energy_out_kWh = RZero
    /\ schedule = << >>
    /\ run_dt_hours = ROne
    /\ run_initial_tank_pct = R(50)
    /\ rerun = FALSE
    /\ phase = 1
    /\ step_in_phase = 0
    /\ current_time = RZero
    /\ pc = "ready"
    /\ results = NoResults
    /\ observed = << >>

\* what a call that has not been made leaves
\* the function called last and, for calculate_liquefaction, its cold argument
CallOf(fn, cold) == [ fn |-> fn, cold |-> cold ]

NoCall == CallOf("none", RZero)

NoOutcome == [ raised |-> "none", value |-> << >>, warnings |-> { } ]

\* no function of config.py / thermodynamics.py is called directly
SolverIdle ==
    /\ kwargs = BaseConfig
    /\ provider = BaseAir
    /\ plant = << >>
    /\ called = NoCall
    /\ outcome = NoOutcome

\* the arguments of a call of run()
RunArgs(sched, dt_hours, initial_tank_pct) ==
    [ schedule |-> sched, dt_hours |-> dt_hours, initial_tank_pct |-> initial_tank_pct ]

\* the storage objects st with total_energy_in_kWh = total_energy_out_kWh = 0
ZeroTotals(st) ==
    [ tank |-> st.tank, hot |-> st.hot, cold |-> st.cold,
      total_in |-> RZero, total_out |-> RZero ]

\* LAESSimulator(c): an instance as __init__ leaves it; previous keeps the
\* arguments, history and results of the run it completed last
NewSimulator(c) ==
    [ state         |-> ZeroTotals(InitStorage(c)),
      history       |-> << >>,
      args          |-> RunArgs(<< >>, ROne, R(50)),
      phase         |-> 1,
      step_in_phase |-> 0,
      current_time  |-> RZero,
      pc            |-> "ready",
      results       |-> NoResults,
      previous      |-> << >> ]

SimIds == { 1, 2 }

\* the two instances have not been run
PairIdle == sims = [ i \in SimIds |-> NewSimulator(cfg) ]

(***************************************************************************)
(* Storage objects driven directly: any sequence of calls with             *)
(* non-negative arguments on a newly constructed object.                   *)
(***************************************************************************)
MaxOps == 3

ThermalCapacities == { R(8), R(20) }

ThermalEfficiencies == { R(1), Frac(1, 4), Frac(4, 9) }

LossRates == { R(0), R(1) }

EnergyArgs == { R(0), R(4), R(18), Frac(5, 2) }

TankCapacities == { R(10) }

MinLevelFracs == { R(0), Frac(1, 10), Frac(1, 2) }

MassArgs == { R(0), R(3), R(6), R(20) }

DtArgs == { R(0), R(1), R(2) }

Call(op, arg, ret) == [ op |-> op, arg |-> arg, ret |-> ret, ts |-> ts, tk |-> tk ]

\* one object is constructed and exercised at a time, as in tests/test_laes.py;
\* the other one stays as a fixed, untouched instance
ObjInit ==
    /\ sut \in { "thermal", "tank" }
    /\ IF sut = "thermal"
       THEN /\ \E c \in ThermalCapacities, l \in LossRates, e \in ThermalEfficiencies :
                  ts = NewThermalStorage(c, l, e)
            /\ tk = NewLiquidAirTank(R(10), RZero, RZero)
       ELSE /\ ts = NewThermalStorage(R(8), RZero, ROne)
            /\ \E c \in TankCapacities, m \in MinLevelFracs, b \in LossRates :
                  tk = NewLiquidAirTank(c, m, b)
    /\ last = [ op |-> "new", arg |-> RZero, ret |-> RZero, ts |-> ts, tk |-> tk ]
    /\ prev = last
    /\ nops = 0
    /\ SimIdle
    /\ SolverIdle
    /\ PairIdle

\* no storage object is driven directly
ObjIdle ==
    /\ sut = "none"
    /\ ts = NewThermalStorage(R(8), RZero, ROne)
    /\ tk = NewLiquidAirTank(R(10), RZero, RZero)
    /\ last = [ op |-> "new", arg |-> RZero, ret |-> RZero, ts |-> ts, tk |-> tk ]
    /\ prev = last
    /\ nops = 0

Invoke(op, arg, r) ==
    /\ last' = Call(op, arg, r.ret)
    /\ prev' = last
    /\ nops' = nops + 1

Thermal_charge ==
    /\ sut = "thermal" /\ nops < MaxOps
    /\ \E E \in EnergyArgs :
          LET r == ThermalCharge(ts, E)
          IN  ts' = r.obj /\ Invoke("charge", E, r)
    /\ UNCHANGED << sut, tk, simVars, solverVars, pairVars >>

Thermal_discharge ==
    /\ sut = "thermal" /\ nops < MaxOps
    /\ \E E \in EnergyArgs :
          LET r == ThermalDischarge(ts, E)
          IN  ts' = r.obj /\ Invoke("discharge", E, r)
    /\ UNCHANGED << sut, tk, simVars, solverVars, pairVars >>

Thermal_apply_losses ==
    /\ sut = "thermal" /\ nops < MaxOps
    /\ \E dt \in DtArgs :
          LET r == ThermalApplyLosses(ts, dt)
          IN  ts' = r.obj /\ Invoke("apply_losses", dt, r)
    /\ UNCHANGED << sut, tk, simVars, solverVars, pairVars >>

Tank_charge ==
    /\ sut = "tank" /\ nops < MaxOps
    /\ \E m \in MassArgs :
          LET r == TankCharge(tk, m)
          IN  tk' = r.obj /\ Invoke("charge", m, r)
    /\ UNCHANGED << sut, ts, simVars, solverVars, pairVars >>

Tank_discharge ==
    /\ sut = "tank" /\ nops < MaxOps
    /\ \E m \in MassArgs :
          LET r == TankDischarge(tk, m)
          IN  tk' = r.obj /\ Invoke("discharge", m, r)
    /\ UNCHANGED << sut, ts, simVars, solverVars, pairVars >>

Tank_apply_boiloff ==
    /\ sut = "tank" /\ nops < MaxOps
    /\ \E dt \in DtArgs :
          LET r == TankApplyBoiloff(tk, dt)
          IN  tk' = r.obj /\ Invoke("apply_boiloff", dt, r)
    /\ UNCHANGED << sut, ts, simVars, solverVars, pairVars >>

ObjNext ==
    \/ Thermal_charge
    \/ Thermal_discharge
    \/ Thermal_apply_losses
    \/ Tank_charge
    \/ Tank_discharge
    \/ Tank_apply_boiloff

SpecStorage == ObjInit /\ [][ObjNext]_vars

(***************************************************************************)
(* LAESSimulator driven through run(schedule, dt_hours, initial_tank_pct)  *)
(***************************************************************************)
\* LAESSimulator(cfg): __init__
SimInit ==
    /\ cfg \in Configs
    /\ air \in AirModels
    /\ tank = InitStorage(cfg).tank
    /\ hot_storage = InitStorage(cfg).hot
    /\ cold_storage = InitStorage(cfg).cold
    /\ history = << >>
    /\ total_energy_in_kWh = RZero
    /\ total_energy_out_kWh = RZero
    /\ schedule = << >>
    /\ run_dt_hours = ROne
    /\ run_initial_tank_pct = R(50)
    /\ rerun = FALSE
    /\ phase = 1
    /\ step_in_phase = 0
    /\ current_time = RZero
    /\ pc = "ready"
    /\ results = NoResults
    /\ observed = << >>
    /\ ObjIdle
    /\ SolverIdle
    /\ PairIdle

Install(s) ==
    /\ tank' = s.tank
    /\ hot_storage' = s.hot
    /\ cold_storage' = s.cold
    /\ total_energy_in_kWh' = s.total_in
    /\ total_energy_out_kWh' = s.total_out

\* run() is called: self.reset(initial_tank_pct)
Run ==
    /\ pc \in { "ready", "done" }
    /\ \E initial_tank_pct \in InitialTankPcts :
         \E st \in { ResetStorage(cfg, initial_tank_pct) } :
             /\ Install([ tank |-> st.tank, hot |-> st.hot, cold |-> st.cold,
                          total_in |-> RZero, total_out |-> RZero ])
             /\ run_initial_tank_pct' = initial_tank_pct
    /\ history' = << >>
    /\ schedule' = << >>
    /\ run_dt_hours' = ROne
    /\ current_time' = RZero
    /\ phase' = 1
    /\ step_in_phase' = 0
    /\ observed' = << >>
    /\ results' = NoResults
    /\ pc' = "reset"
    /\ rerun' = (pc = "done")
    /\ UNCHANGED << cfg, air, objVars, solverVars, pairVars >>

\* run() after the reset, with its schedule and dt_hours arguments: up to the
\* first step of the loops (or to the results when no phase has a step)
EnterLoop ==
    /\ pc = "reset"
    /\ \E sched \in (IF rerun THEN RerunSchedules ELSE Schedules), dt \in DtHours :
         \E p \in { NextPhase(sched, dt, 1) } :
             /\ schedule' = sched
             /\ run_dt_hours' = dt
             /\ phase' = p
             /\ IF p > Len(sched)
                THEN pc' = "done" /\ results' = << CalculateResults(SimState) >>
                ELSE pc' = "running" /\ results' = NoResults
    /\ UNCHANGED << cfg, air, tank, hot_storage, cold_storage, history,
                    total_energy_in_kWh, total_energy_out_kWh, step_in_phase,
                    current_time, observed, run_initial_tank_pct, rerun, objVars,
                    solverVars, pairVars >>

\* one iteration of the loops of run(): _execute_step, history.append,
\* current_time += dt_hours; after the last one, _calculate_results
Step ==
    /\ pc = "running"
    /\ LET dt_seconds == RMul(run_dt_hours, R(SECONDS_PER_HOUR))
           mode       == schedule[phase][1]
           more       == step_in_phase + 1 < NSteps(schedule[phase][2], run_dt_hours)
           p          == IF more THEN phase
                         ELSE NextPhase(schedule, run_dt_hours, phase + 1)
       IN  \E r \in { ExecuteStep(SimState, mode, dt_seconds, current_time) } :
           /\ Install(r.state)
           /\ history' = Append(history, r.step)
           /\ current_time' = RAdd(current_time, run_dt_hours)
           /\ observed' = Append(observed, [ before |-> SimState, mid |-> r.mid,
                                             solver |-> r.solver ])
           /\ phase' = p
           /\ step_in_phase' = IF more THEN step_in_phase + 1 ELSE 0
           /\ IF p > Len(schedule)
              THEN pc' = "done" /\ results' = << CalculateResults(r.state) >>
              ELSE pc' = "running" /\ results' = NoResults
    /\ UNCHANGED << cfg, air, schedule, run_dt_hours, run_initial_tank_pct, rerun,
                    objVars, solverVars, pairVars >>

SimNext ==
    \/ Run
    \/ EnterLoop
    \/ Step

SpecSim == SimInit /\ [][SimNext]_vars


(***************************************************************************)
(* The solvers called directly: a configuration is constructed from the    *)
(* keyword arguments, then the functions of thermodynamics.py are called   *)
(* on it, over the provider.                                               *)
(***************************************************************************)
\* keyword arguments: configurations as used, and ones with a value that is
\* not meaningful for a plant
SolverConfigs ==
    { [ BaseConfig EXCEPT !.bypass_fraction = b, !.cold_storage_efficiency = e ] :
        b \in { Frac(1, 4), Frac(1, 2) }, e \in { R(1), Frac(1, 4) } }
    \cup { [ BaseConfig EXCEPT !.charge_power_MW = R(-1) ],
           [ BaseConfig EXCEPT !.discharge_power_MW = R(0) ],
           [ BaseConfig EXCEPT !.eta_compressor = R(0) ],
           [ BaseConfig EXCEPT !.eta_turbine = Frac(3, 2) ],
           [ BaseConfig EXCEPT !.eta_pump = R(0) ],
           [ BaseConfig EXCEPT !.n_compressor_stages = 0 ],
           [ BaseConfig EXCEPT !.n_turbine_stages = 0 ] }

\* the lookup that fails, if one does
FailurePoints ==
    { "none", "compression", "cold_return", "saturation", "turbine",
      "throttle_enthalpy", "quality" }

\* the two-phase dome at low pressure: around the throttle states, below
\* them (the throttle outlet is superheated) and above them (subcooled)
Domes ==
    { [ h_liquid |-> R(0),      h_vapour |-> R(200000) ],
      [ h_liquid |-> R(0),      h_vapour |-> R(120000) ],
      [ h_liquid |-> R(160000), h_vapour |-> R(360000) ] }

\* the stream after the first exchanger: above the saturation floor, at a
\* state the recycled cold takes to the floor, and already below the floor
PrecooledStates == { R(200000), R(150000), R(50000) }

SolverAirs ==
    { [ BaseAir EXCEPT !.fails_at = f, !.h_liquid = d.h_liquid,
                       !.h_vapour = d.h_vapour, !.outside_dome = o,
                       !.T_after_hx1 = t ] :
        f \in FailurePoints, d \in Domes,
        o \in { "value", "raise", "minus_one" }, t \in PrecooledStates }

\* recycled cold handed to calculate_liquefaction [J/kg]
ColdArgs == { R(0), R(50000), R(100000), R(400000) }

SolverInit ==
    /\ kwargs \in SolverConfigs
    /\ provider \in SolverAirs
    /\ plant = << >>
    /\ called = NoCall
    /\ outcome = NoOutcome
    /\ ObjIdle
    /\ SimIdle
    /\ PairIdle

\* cfg = PlantConfig(**kwargs)
Construct ==
    /\ called = NoCall
    /\ called' = CallOf("PlantConfig", RZero)
    /\ outcome' = ConstructPlantConfig(kwargs)
    /\ plant' = outcome'.value
    /\ UNCHANGED << kwargs, provider, objVars, simVars, pairVars >>

\* calculate_liquefaction(cfg, cold_available_J_per_kg)
Call_calculate_liquefaction ==
    /\ plant # << >>
    /\ \E cold \in ColdArgs :
          /\ called' = CallOf("calculate_liquefaction", cold)
          /\ outcome' = LiquefactionCall(plant, provider, cold)
    /\ UNCHANGED << kwargs, provider, plant, objVars, simVars, pairVars >>

\* calculate_discharge(cfg)
Call_calculate_discharge ==
    /\ plant # << >>
    /\ called' = CallOf("calculate_discharge", RZero)
    /\ outcome' = DischargeCall(plant, provider)
    /\ UNCHANGED << kwargs, provider, plant, objVars, simVars, pairVars >>

\* calculate_rte(cfg)
Call_calculate_rte ==
    /\ plant # << >>
    /\ called' = CallOf("calculate_rte", RZero)
    /\ outcome' = RteCall(plant, provider)
    /\ UNCHANGED << kwargs, provider, plant, objVars, simVars, pairVars >>

SolverNext ==
    \/ Construct
    \/ Call_calculate_liquefaction
    \/ Call_calculate_discharge
    \/ Call_calculate_rte

SpecSolver == SolverInit /\ [][SolverNext]_vars

(***************************************************************************)
(* Two simulator instances built on the same configuration, each run any   *)
(* number of times, their steps interleaved in any order.                  *)
(***************************************************************************)
\* mutant: reset() leaves the cold store of the instance as it is
SimulatorReset_keepsCold(s, c, initial_tank_pct) ==
    ZeroTotals([ ResetStorage(c, initial_tank_pct) EXCEPT !.cold = s.state.cold ])

\* reset(initial_tank_pct) on the instance s
SimulatorReset(s, c, initial_tank_pct) == ZeroTotals(ResetStorage(c, initial_tank_pct))

\* the instance s inside run(a) after the reset to st, at phase p
SimulatorEnter(s, a, st, p) ==
    [ state         |-> st,
      history       |-> << >>,
      args          |-> a,
      phase         |-> p,
      step_in_phase |-> 0,
      current_time  |-> RZero,
      pc            |-> IF p > Len(a.schedule) THEN "done" ELSE "running",
      results       |-> IF p > Len(a.schedule) THEN << CalculateResults(st) >>
                        ELSE NoResults,
      previous      |-> IF s.pc = "done"
                        THEN << [ args |-> s.args, history |-> s.history,
                                  results |-> s.results ] >>
                        ELSE s.previous ]

\* s after the loop iteration with outcome r, continuing at phase p
SimulatorAfterStep(s, r, more, p) ==
    [ s EXCEPT !.state         = r.state,
               !.history       = Append(s.history, r.step),
               !.current_time  = RAdd(s.current_time, s.args.dt_hours),
               !.phase         = p,
               !.step_in_phase = IF more THEN s.step_in_phase + 1 ELSE 0,
               !.pc            = IF p > Len(s.args.schedule) THEN "done" ELSE "running",
               !.results       = IF p > Len(s.args.schedule)
                                 THEN << CalculateResults(r.state) >>
                                 ELSE NoResults ]

\* whether the phase of s has a further step after the next one
MoreSteps(s) ==
    s.step_in_phase + 1 < NSteps(s.args.schedule[s.phase][2], s.args.dt_hours)

\* the phase run() on s is in after the next step
PhaseAfterStep(s) ==
    IF MoreSteps(s) THEN s.phase
    ELSE NextPhase(s.args.schedule, s.args.dt_hours, s.phase + 1)

\* _execute_step of the next loop iteration of run() on s
SimulatorExecute(s) ==
    ExecuteStep(s.state, s.args.schedule[s.phase][1],
                RMul(s.args.dt_hours, R(SECONDS_PER_HOUR)), s.current_time)

PairSchedules ==
    { << << "charge", R(1) >> >>,
      << << "discharge", R(1) >> >>,
      << << "discharge", R(1) >>, << "charge", R(1) >> >> }

PairArgs == { RunArgs(sched, R(1), R(50)) : sched \in PairSchedules }

PairConfigs ==
    { BaseConfig,
      [ BaseConfig EXCEPT !.boiloff_pct_per_day           = R(4800),
                          !.hot_storage_loss_pct_per_day  = R(4800),
                          !.cold_storage_loss_pct_per_day = R(4800),
                          !.hot_storage_efficiency        = Frac(1, 4),
                          !.cold_storage_efficiency       = Frac(1, 4) ] }

PairInit ==
    /\ SimInit
    /\ cfg \in PairConfigs
    /\ air = BaseAir

\* sim.run(schedule, dt_hours, initial_tank_pct) on one of the instances: the
\* reset, and the loops up to the first step
PairRun ==
    /\ \E i \in SimIds, a \in PairArgs :
          /\ sims[i].pc \in { "ready", "done" }
          /\ \E st \in { SimulatorReset(sims[i], cfg, a.initial_tank_pct) } :
                sims' = [ sims EXCEPT ![i] =
                            SimulatorEnter(sims[i], a, st,
                                           NextPhase(a.schedule, a.dt_hours, 1)) ]
    /\ UNCHANGED << objVars, simVars, solverVars >>

\* the next loop iteration of a run in progress on one of the instances
PairStep ==
    /\ \E i \in SimIds :
          /\ sims[i].pc = "running"
          /\ \E s \in { sims[i] } :
                \E r \in { SimulatorExecute(s) } :
                    sims' = [ sims EXCEPT ![i] =
                                SimulatorAfterStep(s, r, MoreSteps(s), PhaseAfterStep(s)) ]
    /\ UNCHANGED << objVars, simVars, solverVars >>

PairNext ==
    \/ PairRun
    \/ PairStep

SpecPair == PairInit /\ [][PairNext]_vars

(***************************************************************************)
(* Properties of the storage objects                                       *)
(***************************************************************************)
ThermalCalled(op) == sut = "thermal" /\ last.op = op

TankCalled(op) == sut = "tank" /\ last.op = op

\* C1: after any sequence of charge / discharge / apply_losses calls with
\* non-negative arguments on a new ThermalStorage, 0 <= energy_J <= capacity_J;
\* the bound is kept by clamping (every call is defined for every argument).
C1_EnergyWithinCapacity ==
    /\ RLe(RZero, ts.energy_J)
    /\ RLe(ts.energy_J, ts.capacity_J)

\* a charge that was clamped at the capacity, and a discharge clamped at empty
C1_Witness ==
    /\ ThermalCalled("discharge")
    /\ prev.op = "charge"
    /\ last.ts.energy_J = ts.capacity_J
    /\ RLt(RZero, last.ts.overflow_J)
    /\ RLt(last.ret, last.arg)
    /\ ts.energy_J = RZero

\* C2: after any sequence of charge / discharge / apply_boiloff calls with
\* non-negative arguments on a new LiquidAirTank, 0 <= mass_kg <= capacity_kg.
C2_MassWithinCapacity ==
    /\ RLe(RZero, tk.mass_kg)
    /\ RLe(tk.mass_kg, tk.capacity_kg)

\* a tank charge that asked for more than the head room and filled the tank
C2_Witness ==
    /\ TankCalled("charge")
    /\ RLt(last.ret, last.arg)
    /\ tk.mass_kg = tk.capacity_kg

\* C3: LiquidAirTank.discharge(m) withdraws and returns exactly
\* min(m, max(0, mass - min_level_frac * capacity)); it never takes the mass
\* below the minimum level, and at or below that level it withdraws nothing.
C3_DischargeRespectsMinLevel ==
    TankCalled("discharge") =>
        LET before   == last.tk
            min_mass == RMul(before.min_level_frac, before.capacity_kg)
            avail    == RMax(RZero, RSub(before.mass_kg, min_mass))
        IN  /\ last.ret = RMin(last.arg, avail)
            /\ tk.mass_kg = RSub(before.mass_kg, last.ret)
            /\ tk.total_discharged_kg = RAdd(before.total_discharged_kg, last.ret)
            /\ RLe(min_mass, before.mass_kg) => RLe(min_mass, tk.mass_kg)
            /\ RLe(before.mass_kg, min_mass) =>
                  last.ret = RZero /\ tk.mass_kg = before.mass_kg

\* boil-off took a non-empty tank below its minimum level, then a discharge
\* asked for a positive mass
C3_Witness ==
    /\ TankCalled("discharge")
    /\ prev.op = "apply_boiloff"
    /\ RLt(RZero, last.arg)
    /\ RLt(RZero, last.tk.mass_kg)
    /\ RLt(last.tk.mass_kg, RMul(tk.min_level_frac, tk.capacity_kg))

\* C4: round-trip law: on an empty store with loss rate 0 and efficiency eta,
\* charge(E) with E * sqrt(eta) <= capacity followed by discharge(R) with
\* R >= eta * E returns eta * E and leaves the store empty.
C4_RoundTrip ==
    ( /\ ThermalCalled("discharge")
      /\ prev.op = "charge"
      /\ ts.loss_rate = RZero
      /\ prev.ts.energy_J = RZero
      /\ RLe(RMul(prev.arg, Sqrt(ts.efficiency)), ts.capacity_J)
      /\ RLe(RMul(ts.efficiency, prev.arg), last.arg) )
    => /\ last.ret = RMul(ts.efficiency, prev.arg)
       /\ ts.energy_J = RZero

\* such a round trip with eta < 1, E > 0 and a request between eta * E and
\* the energy stored
C4_Witness ==
    /\ ThermalCalled("discharge")
    /\ prev.op = "charge"
    /\ ts.loss_rate = RZero
    /\ prev.ts.energy_J = RZero
    /\ RLt(ts.efficiency, ROne)
    /\ RLt(RZero, prev.arg)
    /\ RLe(RMul(prev.arg, Sqrt(ts.efficiency)), ts.capacity_J)
    /\ RLe(RMul(ts.efficiency, prev.arg), last.arg)
    /\ RLt(last.arg, last.ts.energy_J)

\* C5: ThermalStorage.charge(E) raises energy_J by min(E * charge_eff,
\* capacity - energy), returns that amount and adds E * charge_eff - stored to
\* overflow_J; the overflow is positive exactly when E * charge_eff exceeds
\* the remaining capacity.
C5_ChargeStoresAndOverflows ==
    ThermalCalled("charge") =>
        LET before   == last.ts
            input    == RMul(last.arg, before.charge_eff)
            headroom == RSub(before.capacity_J, before.energy_J)
            stored   == RSub(ts.energy_J, before.energy_J)
            overflow == RSub(ts.overflow_J, before.overflow_J)
        IN  /\ stored = RMin(input, headroom)
            /\ last.ret = stored
            /\ RAdd(stored, overflow) = input
            /\ RLt(RZero, overflow) <=> RLt(headroom, input)

\* a charge through an efficiency below 1 that overflowed a partly filled store
C5_Witness ==
    /\ ThermalCalled("charge")
    /\ RLt(ts.charge_eff, ROne)
    /\ RLt(RZero, last.ts.energy_J)
    /\ RLt(last.ts.energy_J, ts.capacity_J)
    /\ RLt(last.ts.overflow_J, ts.overflow_J)

\* C6: ThermalStorage.discharge(R) removes min(R / discharge_eff, energy),
\* returns removed * discharge_eff, which never exceeds R and equals R exactly
\* when energy >= R / discharge_eff; total_discharged_J grows by the returned
\* amount.
C6_DischargeDelivers ==
    ThermalCalled("discharge") =>
        LET before  == last.ts
            needed  == RDiv(last.arg, before.discharge_eff)
            removed == RSub(before.energy_J, ts.energy_J)
        IN  /\ removed = RMin(needed, before.energy_J)
            /\ last.ret = RMul(removed, before.discharge_eff)
            /\ RLe(last.ret, last.arg)
            /\ (last.ret = last.arg) <=> RLe(needed, before.energy_J)
            /\ ts.total_discharged_J = RAdd(before.total_discharged_J, last.ret)

\* a discharge through an efficiency below 1 that the store could serve in full
C6_Witness ==
    /\ ThermalCalled("discharge")
    /\ RLt(ts.discharge_eff, ROne)
    /\ RLt(RZero, last.arg)
    /\ last.ret = last.arg
    /\ RLt(RZero, ts.energy_J)

CountersOfThermal(s) ==
    << s.total_charged_J, s.total_discharged_J, s.total_lost_J, s.overflow_J >>

CountersOfTank(t) ==
    << t.total_charged_kg, t.total_discharged_kg, t.total_boiloff_kg >>

NotDecreased(old, new) == \A i \in DOMAIN old : RLe(old[i], new[i])

\* C7: no call with a non-negative argument decreases a lifetime counter of
\* ThermalStorage or LiquidAirTank; apply_losses / apply_boiloff never raise
\* the stored quantity and add exactly (value before - value after) to the
\* loss counter.
C7_CountersMonotone ==
    /\ NotDecreased(CountersOfThermal(last.ts), CountersOfThermal(ts))
    /\ NotDecreased(CountersOfTank(last.tk), CountersOfTank(tk))
    /\ ThermalCalled("apply_losses") =>
          /\ RLe(ts.energy_J, last.ts.energy_J)
          /\ RSub(ts.total_lost_J, last.ts.total_lost_J)
                = RSub(last.ts.energy_J, ts.energy_J)
    /\ TankCalled("apply_boiloff") =>
          /\ RLe(tk.mass_kg, last.tk.mass_kg)
          /\ RSub(tk.total_boiloff_kg, last.tk.total_boiloff_kg)
                = RSub(last.tk.mass_kg, tk.mass_kg)

\* a store that really lost energy in apply_losses after earlier charging and
\* discharging
C7_Witness ==
    /\ ThermalCalled("apply_losses")
    /\ RLt(ts.energy_J, last.ts.energy_J)
    /\ RLt(RZero, ts.energy_J)
    /\ RLt(RZero, ts.total_discharged_J)
    /\ RLt(RZero, ts.total_lost_J)

(***************************************************************************)
(* Properties of a simulation run                                          *)
(***************************************************************************)
\* a step has been executed in the run in progress or just returned
Stepped == pc \in { "running", "done" } /\ Len(history) > 0

\* the record of the step executed last, the state before it, the state
\* between its mode-specific transfers and its losses, and the state after it
LastRecord == history[Len(history)]

BeforeLast == observed[Len(observed)].before

MidLast == observed[Len(observed)].mid

AfterLast == SimState

\* dt_seconds = dt_hours * SECONDS_PER_HOUR of the run
RunDtSeconds == RMul(run_dt_hours, R(SECONDS_PER_HOUR))

\* floor(duration / dt) for duration >= 0 and dt > 0, said without a division
WholeSteps(duration, dt) ==
    CHOOSE n \in 0..(duration[1] * dt[2]) :
        /\ RLe(RMul(R(n), dt), duration)
        /\ RLt(duration, RMul(R(n + 1), dt))

\* the modes of the records a schedule calls for, phase by phase from phase i
RECURSIVE ScheduledModes(_, _, _)
ScheduledModes(sched, dt, i) ==
    IF i > Len(sched) THEN << >>
    ELSE [ k \in 1..WholeSteps(sched[i][2], dt) |-> sched[i][1] ]
         \o ScheduledModes(sched, dt, i + 1)

\* C8: run records exactly sum over phases of floor(duration / dt) steps;
\* each phase contributes floor(duration / dt) consecutive records carrying
\* its mode, in schedule order; the k-th record (k from 0) has
\* time_hours = k * dt; the remainder of a phase shorter than dt is dropped.
\* While the run is in progress the history is a proper prefix of that.
C8_StepsPerPhase ==
    pc \in { "running", "done" } =>
        \E expected \in { ScheduledModes(schedule, run_dt_hours, 1) } :
            /\ pc = "done" => Len(history) = Len(expected)
            /\ pc = "running" => Len(history) < Len(expected)
            /\ \A k \in 1..Len(history) :
                  /\ history[k].mode = expected[k]
                  /\ history[k].time_hours = RMul(R(k - 1), run_dt_hours)

\* a finished run at dt = 1 h whose first phase lasts 1.5 h (one step, the
\* remainder dropped) and is followed by a phase of another mode with a step
C8_Witness ==
    /\ pc = "done"
    /\ run_dt_hours = ROne
    /\ Len(schedule) >= 2
    /\ schedule[1][2] = Frac(3, 2)
    /\ schedule[1][1] # schedule[2][1]
    /\ Len(history) = 2
    /\ history[2].mode = schedule[2][1]

\* C9: an idle step performs no mass or energy transfer: the energy totals
\* and every charged/discharged (and overflow) counter are unchanged, the
\* record has zero power, zero liquid produced/consumed and zero energy, and
\* tank mass and store energies change only by the boil-off and self-loss
\* of the step; a finished run of idle phases only has both totals at 0.
C9_IdleTransfersNothing ==
    /\ (Stepped /\ LastRecord.mode = "idle") =>
          /\ MidLast = BeforeLast
          /\ AfterLast.total_in = BeforeLast.total_in
          /\ AfterLast.total_out = BeforeLast.total_out
          /\ AfterLast.tank.total_charged_kg = BeforeLast.tank.total_charged_kg
          /\ AfterLast.tank.total_discharged_kg = BeforeLast.tank.total_discharged_kg
          /\ AfterLast.hot.total_charged_J = BeforeLast.hot.total_charged_J
          /\ AfterLast.hot.total_discharged_J = BeforeLast.hot.total_discharged_J
          /\ AfterLast.hot.overflow_J = BeforeLast.hot.overflow_J
          /\ AfterLast.cold.total_charged_J = BeforeLast.cold.total_charged_J
          /\ AfterLast.cold.total_discharged_J = BeforeLast.cold.total_discharged_J
          /\ AfterLast.cold.overflow_J = BeforeLast.cold.overflow_J
          /\ LastRecord.power_in_kW = RZero
          /\ LastRecord.power_out_kW = RZero
          /\ LastRecord.liquid_produced_kg = RZero
          /\ LastRecord.liquid_consumed_kg = RZero
          /\ LastRecord.energy_in_kWh = RZero
          /\ LastRecord.energy_out_kWh = RZero
          /\ AfterLast.tank.mass_kg =
                RSub(BeforeLast.tank.mass_kg, LastRecord.boiloff_kg)
          /\ LastRecord.boiloff_kg =
                RSub(AfterLast.tank.total_boiloff_kg, BeforeLast.tank.total_boiloff_kg)
          /\ AfterLast.hot.energy_J =
                RSub(BeforeLast.hot.energy_J,
                     RSub(AfterLast.hot.total_lost_J, BeforeLast.hot.total_lost_J))
          /\ AfterLast.cold.energy_J =
                RSub(BeforeLast.cold.energy_J,
                     RSub(AfterLast.cold.total_lost_J, BeforeLast.cold.total_lost_J))
    /\ (pc = "done" /\ \A i \in 1..Len(schedule) : schedule[i][1] = "idle") =>
          /\ total_energy_in_kWh = RZero
          /\ total_energy_out_kWh = RZero
          /\ results[1].total_energy_in_kWh = RZero
          /\ results[1].total_energy_out_kWh = RZero

\* an idle step after a charge step, in a plant whose tank boils off
C9_Witness ==
    /\ Stepped
    /\ LastRecord.mode = "idle"
    /\ RLt(RZero, LastRecord.boiloff_kg)
    /\ RLt(AfterLast.hot.energy_J, BeforeLast.hot.energy_J)
    /\ RLt(RZero, total_energy_in_kWh)

\* what exponential decay over the step leaves of a quantity
DecayedOverStep(quantity, rate_per_s) ==
    RMul(quantity, ExpNegLn2(RMul(rate_per_s, RunDtSeconds)))

\* C10: in every step, whatever the mode, boil-off and the self-losses of
\* the hot and the cold store are applied for dt exactly once, after the
\* mode-specific transfers (which apply none), and the tank level and the
\* hot/cold state of charge in the record are the values after the losses.
C10_LossesOncePerStep ==
    Stepped =>
        /\ MidLast.tank.total_boiloff_kg = BeforeLast.tank.total_boiloff_kg
        /\ MidLast.hot.total_lost_J = BeforeLast.hot.total_lost_J
        /\ MidLast.cold.total_lost_J = BeforeLast.cold.total_lost_J
        /\ AfterLast.tank.mass_kg =
              DecayedOverStep(MidLast.tank.mass_kg, MidLast.tank.boiloff_rate)
        /\ AfterLast.hot.energy_J =
              DecayedOverStep(MidLast.hot.energy_J, MidLast.hot.loss_rate)
        /\ AfterLast.cold.energy_J =
              DecayedOverStep(MidLast.cold.energy_J, MidLast.cold.loss_rate)
        /\ AfterLast.tank =
              [ MidLast.tank EXCEPT
                  !.mass_kg = AfterLast.tank.mass_kg,
                  !.total_boiloff_kg =
                      RAdd(@, RSub(MidLast.tank.mass_kg, AfterLast.tank.mass_kg)) ]
        /\ AfterLast.hot =
              [ MidLast.hot EXCEPT
                  !.energy_J = AfterLast.hot.energy_J,
                  !.total_lost_J =
                      RAdd(@, RSub(MidLast.hot.energy_J, AfterLast.hot.energy_J)) ]
        /\ AfterLast.cold =
              [ MidLast.cold EXCEPT
                  !.energy_J = AfterLast.cold.energy_J,
                  !.total_lost_J =
                      RAdd(@, RSub(MidLast.cold.energy_J, AfterLast.cold.energy_J)) ]
        /\ AfterLast.total_in = MidLast.total_in
        /\ AfterLast.total_out = MidLast.total_out
        /\ LastRecord.boiloff_kg =
              RSub(MidLast.tank.mass_kg, AfterLast.tank.mass_kg)
        /\ LastRecord.tank_level_pct =
              RMul(RDiv(AfterLast.tank.mass_kg, AfterLast.tank.capacity_kg), R(100))
        /\ LastRecord.hot_soc_pct =
              RMul(RDiv(AfterLast.hot.energy_J, AfterLast.hot.capacity_J), R(100))
        /\ LastRecord.cold_soc_pct =
              RMul(RDiv(AfterLast.cold.energy_J, AfterLast.cold.capacity_J), R(100))

\* a discharge step that moves liquid, heat and cold, in a plant in which
\* the tank and both stores then lose part of their content
C10_Witness ==
    /\ Stepped
    /\ LastRecord.mode = "discharge"
    /\ RLt(RZero, LastRecord.liquid_consumed_kg)
    /\ MidLast.hot.energy_J # BeforeLast.hot.energy_J
    /\ RLt(BeforeLast.cold.energy_J, MidLast.cold.energy_J)
    /\ RLt(RZero, LastRecord.boiloff_kg)
    /\ RLt(AfterLast.hot.energy_J, MidLast.hot.energy_J)
    /\ RLt(AfterLast.cold.energy_J, MidLast.cold.energy_J)

\* the sum of field f over the records of a history
RECURSIVE SumOver(_, _)
SumOver(h, f) ==
    IF h = << >> THEN RZero ELSE RAdd(SumOver(Tail(h), f), Head(h)[f])

\* C11: every call of run starts from the reset state whatever the simulator
\* did before: fresh tank and stores with every lifetime counter at 0, tank
\* mass = initial_tank_pct / 100 * capacity, hot store at half its capacity,
\* cold store empty, empty history, zero totals; and what a run returns is
\* made of its own steps only (its totals are the sums over its history).
C11_RunStartsFromReset ==
    /\ pc = "reset" =>
          /\ tank = [ capacity_kg         |-> tank_capacity_kg(cfg),
                      min_level_frac      |-> RDiv(cfg.tank_min_level_pct, R(100)),
                      boiloff_rate        |-> boiloff_rate_per_s(cfg),
                      mass_kg             |-> RDiv(RMul(run_initial_tank_pct,
                                                        tank_capacity_kg(cfg)),
                                                   R(100)),
                      total_charged_kg    |-> RZero,
                      total_discharged_kg |-> RZero,
                      total_boiloff_kg    |-> RZero ]
          /\ hot_storage.energy_J = RDiv(hot_storage.capacity_J, R(2))
          /\ cold_storage.energy_J = RZero
          /\ \A st \in { hot_storage, cold_storage } :
                /\ st.total_charged_J = RZero
                /\ st.total_discharged_J = RZero
                /\ st.total_lost_J = RZero
                /\ st.overflow_J = RZero
          /\ history = << >>
          /\ total_energy_in_kWh = RZero
          /\ total_energy_out_kWh = RZero
    /\ pc = "done" =>
          /\ results[1].total_energy_in_kWh = SumOver(history, "energy_in_kWh")
          /\ results[1].total_energy_out_kWh = SumOver(history, "energy_out_kWh")
          /\ results[1].total_liquid_produced_kg = SumOver(history, "liquid_produced_kg")
          /\ results[1].total_liquid_consumed_kg = SumOver(history, "liquid_consumed_kg")
          /\ results[1].total_boiloff_kg = SumOver(history, "boiloff_kg")

\* a second run on the same instance has returned, with energy taken in
C11_Witness ==
    /\ pc = "done"
    /\ rerun
    /\ Len(history) > 0
    /\ RLt(RZero, results[1].total_energy_in_kWh)
    /\ RLt(RZero, results[1].total_boiloff_kg)

\* a run of a charge phase followed by a discharge phase, from the default
\* reset state (tank 50 % full), has returned
ChargeThenDischargeDone ==
    /\ pc = "done"
    /\ Len(schedule) = 2
    /\ schedule[1][1] = "charge"
    /\ schedule[2][1] = "discharge"
    /\ run_initial_tank_pct = R(50)

\* C12 as claimed: for a charge phase (long enough to be simulated) followed
\* by a discharge phase, from the default reset state, total_energy_in_kWh
\* is positive and total_energy_out_kWh is strictly less than it.
C12_OutBelowIn ==
    (ChargeThenDischargeDone /\ WholeSteps(schedule[1][2], run_dt_hours) >= 1) =>
        /\ RLt(RZero, total_energy_in_kWh)
        /\ RLt(total_energy_out_kWh, total_energy_in_kWh)

\* C12 amended: for a charge phase followed by a discharge phase from the
\* default reset state, total_energy_in_kWh = charge power * dt * (steps of
\* the charge phase), positive when that phase has a step;
\* total_energy_out_kWh <= discharge power * dt * (steps of the discharge
\* phase); so out < in whenever charge power * charge steps exceeds
\* discharge power * discharge steps.
C12_EnergyBalance ==
    ChargeThenDischargeDone =>
        \E nc \in { WholeSteps(schedule[1][2], run_dt_hours) },
           nd \in { WholeSteps(schedule[2][2], run_dt_hours) } :
            /\ total_energy_in_kWh =
                  RMul(RMul(charge_power_kW(cfg), run_dt_hours), R(nc))
            /\ nc >= 1 => RLt(RZero, total_energy_in_kWh)
            /\ RLe(RZero, total_energy_out_kWh)
            /\ RLe(total_energy_out_kWh,
                   RMul(RMul(discharge_power_kW(cfg), run_dt_hours), R(nd)))
            /\ RLt(RMul(discharge_power_kW(cfg), R(nd)),
                   RMul(charge_power_kW(cfg), R(nc)))
                  => RLt(total_energy_out_kWh, total_energy_in_kWh)

\* three charge steps then one discharge step that delivers energy
C12_Witness ==
    /\ ChargeThenDischargeDone
    /\ WholeSteps(schedule[1][2], run_dt_hours) = 3
    /\ WholeSteps(schedule[2][2], run_dt_hours) = 1
    /\ RLt(RZero, total_energy_out_kWh)
    /\ RLt(total_energy_out_kWh, total_energy_in_kWh)

\* C13: the reported round_trip_efficiency is total_energy_out_kWh /
\* total_energy_in_kWh when energy was taken in, and 0 when none was (also
\* when the run only discharged the initial inventory and delivered energy);
\* computing the results never divides by zero (every run returns).
C13_RoundTripEfficiency ==
    pc = "done" =>
        /\ Len(results) = 1
        /\ results[1].total_energy_in_kWh = total_energy_in_kWh
        /\ results[1].total_energy_out_kWh = total_energy_out_kWh
        /\ RLe(RZero, total_energy_in_kWh)
        /\ RLt(RZero, total_energy_in_kWh) =>
              RMul(results[1].round_trip_efficiency, total_energy_in_kWh)
                  = total_energy_out_kWh
        /\ total_energy_in_kWh = RZero =>
              results[1].round_trip_efficiency = RZero

\* a run that only discharged the initial inventory: output without input
C13_Witness ==
    /\ pc = "done"
    /\ total_energy_in_kWh = RZero
    /\ RLt(RZero, total_energy_out_kWh)
    /\ results[1].round_trip_efficiency = RZero

(***************************************************************************)
(* Properties of the configuration and the cycle solvers                   *)
(***************************************************************************)
\* the values a plant configuration is meant to have: positive power
\* ratings, component efficiencies in (0, 1], stage counts of at least 1
ValidConfig(k) ==
    /\ RLt(RZero, k.charge_power_MW)
    /\ RLt(RZero, k.discharge_power_MW)
    /\ \A eta \in { k.eta_compressor, k.eta_cryo_turbine, k.eta_turbine, k.eta_pump } :
          RLt(RZero, eta) /\ RLe(eta, ROne)
    /\ k.n_compressor_stages >= 1
    /\ k.n_turbine_stages >= 1

\* C14: constructing a plant configuration from invalid values ends in a
\* configuration error and yields no configuration, so that no solver is
\* ever called on an invalid configuration
C14_InvalidConfigRejected ==
    (called # NoCall /\ ~ValidConfig(kwargs)) =>
        /\ called.fn = "PlantConfig"
        /\ outcome.raised = "ConfigurationError"
        /\ plant = << >>

\* calculate_liquefaction was the last call, with an argument and on a
\* configuration and provider that take it as far as the throttle
ReachedThrottle ==
    /\ called.fn = "calculate_liquefaction"
    /\ plant.n_compressor_stages >= 1
    /\ plant.eta_compressor # RZero
    /\ provider.fails_at \notin UnguardedLookups(called.cold)

\* the provider's answer to the quality lookup at the throttle outlet
ThrottleLookup ==
    QualityLookup(provider,
                  EnthalpyAt(provider,
                             calculate_liquefaction(plant, provider,
                                                    called.cold).T_before_JT_K))

\* the throttle outlet is not a valid two-phase state
InvalidThrottleState ==
    \/ ThrottleLookup.raised
    \/ RLt(ThrottleLookup.value, RZero)
    \/ RLt(ROne, ThrottleLookup.value)

\* C15: whenever the quality at the throttle outlet is below 0, above 1, or
\* its lookup fails, calculate_liquefaction returns a result, with liquid
\* yield 0, and surfaces a warning
C15_InvalidThrottleWarns ==
    (ReachedThrottle /\ InvalidThrottleState) =>
        /\ outcome.raised = "none"
        /\ outcome.value.liquid_yield = RZero
        /\ outcome.warnings # { }

\* the provider lookups a call of calculate_liquefaction makes
LookupsMade(cold_available_J_per_kg) ==
    UnguardedLookups(cold_available_J_per_kg) \cup { "quality" }

\* calculate_liquefaction was the last call and one of its lookups failed
LookupFailed ==
    /\ called.fn = "calculate_liquefaction"
    /\ plant.n_compressor_stages >= 1
    /\ plant.eta_compressor # RZero
    /\ provider.fails_at \in LookupsMade(called.cold)

\* C16: a PropertyLookupError at any lookup made during
\* calculate_liquefaction is recovered from: the call returns a result with
\* liquid yield 0 and a warning, and no exception reaches the caller
C16_LookupFailureRecoverable ==
    LookupFailed =>
        /\ outcome.raised = "none"
        /\ outcome.value.liquid_yield = RZero
        /\ outcome.warnings # { }

\* C17: a result of calculate_liquefaction has specific consumption = net
\* work / liquid yield when the yield is positive and +infinity when it is
\* 0, the call never ends in a division by a zero yield, the yield is
\* (1 - bypass_fraction) * (1 - quality) for a quality the throttle outlet
\* has (0 without one), and so lies in [0, 1 - bypass_fraction]
C17_SpecificConsumption ==
    ReachedThrottle =>
        /\ outcome.raised = "none"
        /\ LET r         == outcome.value
               main_frac == RSub(ROne, plant.bypass_fraction)
           IN  /\ RLt(RZero, r.liquid_yield) =>
                     r.specific_consumption_J_per_kg
                         = RDiv(r.net_work_J_per_kg, r.liquid_yield)
               /\ r.liquid_yield = RZero =>
                     r.specific_consumption_J_per_kg = Inf
               /\ r.liquid_yield =
                     IF InvalidThrottleState THEN RZero
                     ELSE RMul(main_frac, RSub(ROne, ThrottleLookup.value))
               /\ RLe(RZero, r.liquid_yield)
               /\ RLe(r.liquid_yield, main_frac)

\* a call with recycled cold that liquefies part of the main stream
C17_Witness ==
    /\ ReachedThrottle
    /\ RLt(RZero, called.cold)
    /\ outcome.raised = "none"
    /\ RLt(RZero, ThrottleLookup.value)
    /\ RLt(ThrottleLookup.value, ROne)
    /\ RLt(RZero, outcome.value.liquid_yield)
    /\ outcome.value.specific_consumption_J_per_kg # Inf

\* C18: for any valid configuration calculate_rte returns rte_with_cold >=
\* rte_no_cold, where both divide the net work of the one discharge result
\* by a specific consumption: rte_no_cold that of liquefaction without
\* recycled cold, rte_with_cold that of liquefaction with recycled cold =
\* cold_recoverable * cold_storage_efficiency
C18_ColdRecycleNeverHurts ==
    (called.fn = "calculate_rte" /\ ValidConfig(plant) /\ provider.fails_at = "none") =>
        /\ outcome.raised = "none"
        /\ LET dis      == calculate_discharge(plant, provider)
               recycled == RMul(dis.cold_recoverable_J_per_kg,
                                plant.cold_storage_efficiency)
           IN  /\ outcome.value.rte_no_cold =
                     RDiv(dis.net_work_J_per_kg,
                          calculate_liquefaction(plant, provider, RZero)
                              .specific_consumption_J_per_kg)
               /\ outcome.value.rte_with_cold =
                     RDiv(dis.net_work_J_per_kg,
                          calculate_liquefaction(plant, provider, recycled)
                              .specific_consumption_J_per_kg)
        /\ RLe(outcome.value.rte_no_cold, outcome.value.rte_with_cold)

\* C20: in calculate_liquefaction with recycled cold c > 0 the cold used is
\* between 0 and c and the stream leaves the cold-store exchanger no colder
\* than the floor (saturation temperature at high pressure plus 2 K); with
\* c = 0 the cold used is 0 and the exchanger leaves the stream unchanged
C20_ColdUsedWithinSupply ==
    (called.fn = "calculate_liquefaction" /\ outcome.raised = "none") =>
        LET hx == ColdStoreExchanger(provider, called.cold)
        IN  /\ outcome.value.cold_used_J_per_kg = hx.cold_used
            /\ RLt(RZero, called.cold) =>
                  /\ RLe(RZero, outcome.value.cold_used_J_per_kg)
                  /\ RLe(outcome.value.cold_used_J_per_kg, called.cold)
                  /\ RLe(provider.h_min, EnthalpyAt(provider, hx.T_after_cold))
            /\ called.cold = RZero =>
                  /\ outcome.value.cold_used_J_per_kg = RZero
                  /\ hx.T_after_cold = provider.T_after_hx1

(***************************************************************************)
(* Properties of runs on two simulator instances                           *)
(***************************************************************************)
\* what a run on the instance s has produced so far
RunOf(s) == [ args |-> s.args, history |-> s.history, results |-> s.results ]

\* the completed runs the instance s still shows: the one it has just
\* finished and the one before its latest run() call
CompletedBy(s) ==
    (IF s.pc = "done" THEN { RunOf(s) } ELSE { })
        \cup { s.previous[k] : k \in DOMAIN s.previous }

CompletedRuns == UNION { CompletedBy(sims[i]) : i \in SimIds }

IsPrefix(h1, h2) == Len(h1) <= Len(h2) /\ SubSeq(h2, 1, Len(h1)) = h1

\* C19: runs with the same configuration, schedule, dt and initial_tank_pct
\* are identical, on one simulator or on two, in any order or interleaving:
\* two completed runs with equal arguments have equal histories and equal
\* result records, and two runs with equal arguments, finished or in
\* progress, agree step by step: the history of the one that is behind is a
\* prefix of the other's, and after the same number of steps both hold the
\* same storage state and totals (the state after step n, with the
\* arguments, determines step n+1).
C19_RunsDeterministic ==
    /\ \A r1, r2 \in CompletedRuns :
          r1.args = r2.args => r1.history = r2.history /\ r1.results = r2.results
    /\ \A i, j \in SimIds :
          /\ sims[i].pc # "ready"
          /\ sims[j].pc # "ready"
          /\ sims[i].args = sims[j].args
          /\ Len(sims[i].history) <= Len(sims[j].history)
          => /\ IsPrefix(sims[i].history, sims[j].history)
             /\ Len(sims[i].history) = Len(sims[j].history)
                => sims[i].state = sims[j].state

\* both instances have completed the same two-step run, the first of them
\* after an earlier run with other arguments
C19_Witness ==
    /\ sims[1].pc = "done"
    /\ sims[2].pc = "done"
    /\ sims[1].args = sims[2].args
    /\ Len(sims[1].history) = 2
    /\ sims[1].previous # << >>
    /\ sims[1].previous[1].args # sims[1].args
    /\ Len(sims[1].previous[1].history) > 0
    /\ sims[2].previous = << >>

(***************************************************************************)
(* Properties of charge and discharge steps                                *)
(***************************************************************************)
ChargeStepped == Stepped /\ LastRecord.mode = "charge"

DischargeStepped == Stepped /\ LastRecord.mode = "discharge"

\* the call of calculate_liquefaction made by the step executed last
SolverCallLast == observed[Len(observed)].solver[1]

\* energy_in_J = power_kW * 1000 * dt_s of a charge step
ChargeEnergyJ == RMul(RMul(charge_power_kW(cfg), R(1000)), RunDtSeconds)

\* the air processed in the charge step executed last:
\* energy_in_J / liq_result['net_work_J_per_kg']
AirProcessedLast == RDiv(ChargeEnergyJ, SolverCallLast.liq_result.net_work_J_per_kg)

\* the air the step would process at the net work of liquefaction without
\* recycled cold: power_kW * 1000 / liq_no_cold['net_work_J_per_kg'] * dt_s
AirEstimatedLast == RDiv(ChargeEnergyJ, liq_no_cold.net_work_J_per_kg)

\* min(energy / air, 150 kJ/kg), and 0 for an empty store
ColdShare(energy_J, air_kg) ==
    IF RLt(RZero, energy_J) THEN RMin(RDiv(energy_J, air_kg), R(150000)) ELSE RZero

\* C21: in every charge step the recycled cold passed to the liquefaction
\* solver equals min(cold store energy / air processed in this step,
\* 150 kJ/kg), 0 when the cold store is empty; it never exceeds 150 kJ/kg nor
\* the cold store's energy per kg of air processed in the step.
C21_ColdPassedPerAirProcessed ==
    ChargeStepped =>
        /\ Len(observed[Len(observed)].solver) = 1
        /\ SolverCallLast.cold_available
              = ColdShare(BeforeLast.cold.energy_J, AirProcessedLast)
        /\ RLe(SolverCallLast.cold_available, R(150000))
        /\ RLe(RMul(SolverCallLast.cold_available, AirProcessedLast),
               BeforeLast.cold.energy_J)

\* C21 amended: in every charge step the recycled cold passed to the
\* liquefaction solver equals min(cold store energy / air_to_be_processed,
\* 150 kJ/kg), where air_to_be_processed is the air the step would process
\* at the net work of liquefaction without recycled cold, and is 0 when the
\* cold store is empty; it never exceeds 150 kJ/kg nor the cold store's
\* energy per kg of air_to_be_processed, nor, when recycling does not lower
\* the net work, per kg of the air processed in the step.
C21_ColdPassedPerAirEstimated ==
    ChargeStepped =>
        /\ Len(observed[Len(observed)].solver) = 1
        /\ SolverCallLast.cold_available
              = ColdShare(BeforeLast.cold.energy_J, AirEstimatedLast)
        /\ RLe(SolverCallLast.cold_available, R(150000))
        /\ RLe(RMul(SolverCallLast.cold_available, AirEstimatedLast),
               BeforeLast.cold.energy_J)
        /\ RLe(liq_no_cold.net_work_J_per_kg,
               SolverCallLast.liq_result.net_work_J_per_kg)
              => RLe(RMul(SolverCallLast.cold_available, AirProcessedLast),
                     BeforeLast.cold.energy_J)

\* a charge step on a cold store holding more than 150 kJ per kg of air to
\* be processed: the cap decides, and the air processed is below the estimate
C21_Witness ==
    /\ ChargeStepped
    /\ RLt(R(150000), RDiv(BeforeLast.cold.energy_J, AirEstimatedLast))
    /\ SolverCallLast.cold_available = R(150000)
    /\ RLt(AirProcessedLast, AirEstimatedLast)

\* the cold energy credited to the liquefaction calculation of the charge
\* step executed last: cold_used_J = cold_used_J_per_kg * air_processed
ColdCreditedLast ==
    RMul(SolverCallLast.liq_result.cold_used_J_per_kg, AirProcessedLast)

\* the cold energy the cold store delivered in the step executed last
ColdDeliveredLast ==
    RSub(MidLast.cold.total_discharged_J, BeforeLast.cold.total_discharged_J)

\* C22: in every charge step the cold energy credited to the liquefaction
\* calculation (cold_used per kg times the air processed in the step) never
\* exceeds the cold energy the cold store delivers in that step.
C22_ColdCreditedWithinDelivered ==
    ChargeStepped => RLe(ColdCreditedLast, ColdDeliveredLast)

\* liquid_needed = target_power_kW * 1000 / specific_output * dt_s
LiquidNeeded ==
    RMul(RDiv(RMul(discharge_power_kW(cfg), R(1000)), specific_output), RunDtSeconds)

\* heat_needed_J and heat_delivered of the discharge step executed last
HeatNeededLast == RMul(heat_per_kg_discharge, LastRecord.liquid_consumed_kg)

HeatDeliveredLast ==
    RSub(MidLast.hot.total_discharged_J, BeforeLast.hot.total_discharged_J)

\* heat_delivered < heat_needed_J * 0.9 and heat_needed_J > 0
HeatShortLast ==
    /\ RLt(HeatDeliveredLast, RMul(HeatNeededLast, Frac(9, 10)))
    /\ RLt(RZero, HeatNeededLast)

\* the power of the discharge step executed last as the tank allows it
TankLimitedPowerLast ==
    RMul(discharge_power_kW(cfg), RDiv(LastRecord.liquid_consumed_kg, LiquidNeeded))

\* C23: in every discharge step the liquid requested from the tank is
\* discharge_power * dt / specific_output; the tank delivers min(requested,
\* available); the power before heat throttling is discharge_power *
\* (consumed / requested), which is the recorded power when the heat
\* suffices and bounds it otherwise; 0 <= power_out_kW <= configured discharge
\* power and energy_out_kWh = power_out_kW * dt_hours.
C23_DischargePowerFollowsLiquid ==
    DischargeStepped =>
        /\ RLt(RZero, LiquidNeeded)
        /\ LastRecord.liquid_consumed_kg
              = RMin(LiquidNeeded, TankAvailable(BeforeLast.tank))
        /\ RSub(BeforeLast.tank.mass_kg, MidLast.tank.mass_kg)
              = LastRecord.liquid_consumed_kg
        /\ ~HeatShortLast => LastRecord.power_out_kW = TankLimitedPowerLast
        /\ RLe(LastRecord.power_out_kW, TankLimitedPowerLast)
        /\ RLe(RZero, LastRecord.power_out_kW)
        /\ RLe(LastRecord.power_out_kW, discharge_power_kW(cfg))
        /\ LastRecord.energy_out_kWh = RMul(LastRecord.power_out_kW, run_dt_hours)
        /\ AfterLast.total_out = RAdd(BeforeLast.total_out, LastRecord.energy_out_kWh)

\* a discharge step in which the tank holds less than requested above its
\* minimum level and the heat suffices: power below the configured power
C23_Witness ==
    /\ DischargeStepped
    /\ RLt(RZero, LastRecord.liquid_consumed_kg)
    /\ RLt(LastRecord.liquid_consumed_kg, LiquidNeeded)
    /\ ~HeatShortLast
    /\ RLt(RZero, LastRecord.power_out_kW)
    /\ RLt(LastRecord.power_out_kW, discharge_power_kW(cfg))

\* C24: in a discharge step, if the heat delivered by the hot store is below
\* 90% of the heat required for the liquid consumed, the delivered power is
\* the tank-limited power times delivered heat / required heat; if it is at
\* least 90% the power is not reduced for heat. The throttle changes only
\* power and energy out: the liquid withdrawn stays consumed (tank mass and
\* the tank's discharged counter move by the liquid consumed) and the hot
\* store keeps what it delivered as discharged.
C24_HeatThrottle ==
    DischargeStepped =>
        /\ HeatShortLast =>
              LastRecord.power_out_kW
                  = RMul(TankLimitedPowerLast, RDiv(HeatDeliveredLast, HeatNeededLast))
        /\ ~HeatShortLast => LastRecord.power_out_kW = TankLimitedPowerLast
        /\ RLe(HeatDeliveredLast, HeatNeededLast)
        /\ MidLast.tank.mass_kg
              = RSub(BeforeLast.tank.mass_kg, LastRecord.liquid_consumed_kg)
        /\ MidLast.tank.total_discharged_kg
              = RAdd(BeforeLast.tank.total_discharged_kg, LastRecord.liquid_consumed_kg)
        /\ LastRecord.energy_out_kWh = RMul(LastRecord.power_out_kW, run_dt_hours)

\* a discharge step whose hot store delivers some heat, but less than 90% of
\* the heat required: power reduced, liquid consumed
C24_Witness ==
    /\ DischargeStepped
    /\ HeatShortLast
    /\ RLt(RZero, HeatDeliveredLast)
    /\ RLt(RZero, LastRecord.liquid_consumed_kg)
    /\ RLt(RZero, LastRecord.power_out_kW)
    /\ RLt(LastRecord.power_out_kW, TankLimitedPowerLast)

\* the cold offered to the cold store and the cold it stored in the step
\* executed last
ColdOfferedLast == RSub(MidLast.cold.total_charged_J, BeforeLast.cold.total_charged_J)

ColdStoredLast == RSub(MidLast.cold.energy_J, BeforeLast.cold.energy_J)

\* C25: every discharge step offers cold_recoverable_per_kg * liquid_consumed
\* to the cold store, which stores it subject to its charge efficiency and
\* its capacity, whether or not the power was reduced for heat; a discharge
\* step that consumes no liquid deposits no cold, withdraws no heat and
\* delivers zero power.
C25_ColdFollowsLiquid ==
    DischargeStepped =>
        /\ ColdOfferedLast = RMul(cold_per_kg, LastRecord.liquid_consumed_kg)
        /\ ColdStoredLast
              = RMin(RMul(ColdOfferedLast, BeforeLast.cold.charge_eff),
                     RSub(BeforeLast.cold.capacity_J, BeforeLast.cold.energy_J))
        /\ MidLast.cold.total_discharged_J = BeforeLast.cold.total_discharged_J
        /\ LastRecord.liquid_consumed_kg = RZero =>
              /\ MidLast.cold = BeforeLast.cold
              /\ MidLast.hot = BeforeLast.hot
              /\ MidLast.tank = BeforeLast.tank
              /\ LastRecord.power_out_kW = RZero
              /\ LastRecord.energy_out_kWh = RZero

\* a discharge step that finds the tank at its minimum level, after a
\* discharge step of the same run that consumed liquid, was reduced for heat
\* and left cold in the store
C25_Witness ==
    /\ DischargeStepped
    /\ LastRecord.liquid_consumed_kg = RZero
    /\ RLt(RZero, BeforeLast.cold.energy_J)
    /\ \E k \in 1..(Len(history) - 1) :
          /\ history[k].mode = "discharge"
          /\ RLt(RZero, history[k].liquid_consumed_kg)
          /\ RLt(RZero, history[k].cold_soc_pct)
          /\ RLt(history[k].power_out_kW,
                 RMul(discharge_power_kW(cfg),
                      RDiv(history[k].liquid_consumed_kg, LiquidNeeded)))

(***************************************************************************)
(* Properties of the balances and the reported results                     *)
(***************************************************************************)
\* the tank mass reset() sets: initial_tank_pct / 100 * tank_capacity_kg
InitialTankMass ==
    RMul(RDiv(run_initial_tank_pct, R(100)), tank_capacity_kg(cfg))

\* C26: tank mass balance: after every step of any run, tank mass = initial
\* mass + total_charged_kg - total_discharged_kg - total_boiloff_kg; the
\* per-step liquid_produced_kg, liquid_consumed_kg and boiloff_kg of the
\* history sum to those counters; and the reported total_liquid_produced_kg,
\* total_liquid_consumed_kg, total_boiloff_kg and final_tank_level_pct are
\* consistent with the initial fill.
C26_TankMassBalance ==
    /\ pc \in { "reset", "running", "done" } =>
          /\ tank.mass_kg
                = RSub(RSub(RAdd(InitialTankMass, tank.total_charged_kg),
                            tank.total_discharged_kg),
                       tank.total_boiloff_kg)
          /\ tank.total_charged_kg = SumOver(history, "liquid_produced_kg")
          /\ tank.total_discharged_kg = SumOver(history, "liquid_consumed_kg")
          /\ tank.total_boiloff_kg = SumOver(history, "boiloff_kg")
    /\ pc = "done" =>
          RMul(RDiv(results[1].final_tank_level_pct, R(100)), tank.capacity_kg)
              = RSub(RSub(RAdd(InitialTankMass, results[1].total_liquid_produced_kg),
                          results[1].total_liquid_consumed_kg),
                     results[1].total_boiloff_kg)

\* a finished run that produced liquid, consumed liquid and lost liquid to
\* boil-off
C26_Witness ==
    /\ pc = "done"
    /\ RLt(RZero, results[1].total_liquid_produced_kg)
    /\ RLt(RZero, results[1].total_liquid_consumed_kg)
    /\ RLt(RZero, results[1].total_boiloff_kg)
    /\ Len(history) >= 2

InUnitInterval(x) == RLe(RZero, x) /\ RLe(x, ROne)

\* C27: for every schedule the reported tank_efficiency,
\* hot_storage_efficiency and cold_storage_efficiency each lie in [0, 1],
\* also when a reservoir loses part of its initial inventory to boil-off or
\* self-loss while its charged throughput is zero or small.
C27_EfficienciesInUnitInterval ==
    pc = "done" =>
        /\ InUnitInterval(results[1].tank_efficiency)
        /\ InUnitInterval(results[1].hot_storage_efficiency)
        /\ InUnitInterval(results[1].cold_storage_efficiency)

\* the k-th step of the run is a discharge step that consumed liquid
ConsumedLiquid(k) ==
    history[k].mode = "discharge" /\ RLt(RZero, history[k].liquid_consumed_kg)

\* no discharge step among the first n steps of the run consumed liquid
NoColdSourceUpTo(n) == \A k \in 1..n : ~ConsumedLiquid(k)

\* C28: in any run the cold store stays empty (energy 0, state of charge 0%)
\* until the first discharge step that consumes liquid: every step before it
\* finds and leaves the cold store empty, every charge step before it calls
\* the liquefaction solver with zero recycled cold, uses none and withdraws
\* nothing from the cold store; so recycled cold reaches a charge step only
\* from an earlier discharge step of the same run.
C28_ColdOnlyFromDischarge ==
    /\ pc = "reset" => cold_storage.energy_J = RZero
    /\ pc \in { "running", "done" } =>
          /\ \A k \in 1..Len(history) :
                NoColdSourceUpTo(k - 1) =>
                    /\ observed[k].before.cold.energy_J = RZero
                    /\ history[k].mode = "charge" =>
                          /\ observed[k].solver[1].cold_available = RZero
                          /\ observed[k].solver[1].liq_result.cold_used_J_per_kg = RZero
                          /\ observed[k].mid.cold = observed[k].before.cold
                    /\ ~ConsumedLiquid(k) => history[k].cold_soc_pct = RZero
          /\ NoColdSourceUpTo(Len(history)) =>
                /\ cold_storage.energy_J = RZero
                /\ cold_storage.total_discharged_J = RZero

\* a run whose charge step ran without recycled cold and whose following
\* discharge step consumed liquid and put cold into the store
C28_Witness ==
    /\ pc \in { "running", "done" }
    /\ Len(history) = 2
    /\ history[1].mode = "charge"
    /\ observed[1].solver[1].cold_available = RZero
    /\ ConsumedLiquid(2)
    /\ RLt(RZero, cold_storage.energy_J)
    /\ RLt(RZero, history[2].cold_soc_pct)

(***************************************************************************)
(* Properties of calculate_rte at zero yield                               *)
(***************************************************************************)
\* calculate_rte was called on a valid configuration over a provider none
\* of whose lookups fails, and liquefaction without recycled cold yields no
\* liquid
RteCalledAtZeroYield ==
    /\ called.fn = "calculate_rte"
    /\ ValidConfig(plant)
    /\ provider.fails_at = "none"
    /\ calculate_liquefaction(plant, provider, RZero).liquid_yield = RZero

\* C29: calculate_rte degrades gracefully when the liquefaction solver
\* returns zero liquid yield (specific consumption +infinity): it returns,
\* without a division-by-zero error, a result with rte_no_cold = 0, with
\* rte_with_cold = 0 if the yield with recycled cold is zero too, and with
\* an improvement_pct.
C29_RteAtZeroYield ==
    RteCalledAtZeroYield =>
        /\ outcome.raised = "none"
        /\ outcome.value.rte_no_cold = RZero
        /\ calculate_liquefaction(plant, provider, RteColdAvailable(plant, provider))
               .liquid_yield = RZero
              => outcome.value.rte_with_cold = RZero
        /\ "improvement_pct" \in DOMAIN outcome.value

(***************************************************************************)
(* Properties of the energy and liquid a charge step records               *)
(***************************************************************************)
\* liquid_produced = air_processed * liq_result['liquid_yield'] of the
\* charge step executed last
LiquidOfferedLast == RMul(AirProcessedLast, SolverCallLast.liq_result.liquid_yield)

\* C30: a charge step always records power_in_kW = configured charge power
\* and adds charge_power_kW * dt_hours to total_energy_in_kWh, whatever the
\* tank headroom; the liquid recorded as produced and added to the tank's
\* charged counter is the amount the tank accepted, min(liquid offered,
\* remaining capacity before the step); with a full tank the step takes its
\* full input energy and stores no liquid.
C30_ChargeRecordsAccepted ==
    ChargeStepped =>
        /\ LastRecord.power_in_kW = charge_power_kW(cfg)
        /\ LastRecord.energy_in_kWh = RMul(charge_power_kW(cfg), run_dt_hours)
        /\ AfterLast.total_in = RAdd(BeforeLast.total_in, LastRecord.energy_in_kWh)
        /\ LastRecord.liquid_produced_kg
              = RMin(LiquidOfferedLast,
                     RSub(BeforeLast.tank.capacity_kg, BeforeLast.tank.mass_kg))
        /\ LastRecord.liquid_produced_kg
              = RSub(MidLast.tank.mass_kg, BeforeLast.tank.mass_kg)
        /\ LastRecord.liquid_produced_kg
              = RSub(MidLast.tank.total_charged_kg, BeforeLast.tank.total_charged_kg)
        /\ BeforeLast.tank.mass_kg = BeforeLast.tank.capacity_kg =>
              /\ LastRecord.liquid_produced_kg = RZero
              /\ RLt(RZero, LastRecord.energy_in_kWh)

\* a charge step on a full tank whose liquefaction yields liquid
C30_Witness ==
    /\ ChargeStepped
    /\ BeforeLast.tank.mass_kg = BeforeLast.tank.capacity_kg
    /\ RLt(RZero, LiquidOfferedLast)
    /\ LastRecord.liquid_produced_kg = RZero
    /\ LastRecord.energy_in_kWh = RMul(charge_power_kW(cfg), run_dt_hours)

=============================================================================
